---- MODULE Spec2Model ----
(***************************************************************************)
(* trivy-viewer: the storage providers (S3, GCS, Azure Blob, filesystem)   *)
(* and the request handlers of server.js that call them.                   *)
(*                                                                         *)
(* Strings are sequences of one-character strings, so that startsWith,     *)
(* endsWith, split, path.join and path.resolve are computed character by   *)
(* character as Node computes them.  A value that a JavaScript function    *)
(* binds to a const and reads several times is passed on as the parameter  *)
(* of the operator that continues the function.                            *)
(***************************************************************************)
EXTENDS Integers, Sequences, FiniteSets, TLC

VARIABLES
    provider,   \* the provider instance built at startup (immutable fields)
    store,      \* the backend: a sequence of objects [key, body, mtime]
    now,        \* the clock (Date.now / file modification times)
    chain,      \* a client's pagination chain over listFiles
    resp,       \* the ListObjectsV2 response mapped by S3 listFiles, and its page
    last,       \* the provider calls made so far by a direct caller, newest first
    reqs,       \* the HTTP requests in flight or answered
    probe       \* the input and the output of a pure function under check

vars == <<provider, store, now, chain, resp, last, reqs, probe>>

----------------------------------------------------------------------------
(* Bounds of the model.                                                    *)

MaxStem == 2        \* characters drawn freely in front of a filename suffix
MaxLimit == 3       \* largest page limit a pagination client passes
MaxFiles == 3       \* objects in a directory that is paged through
MaxClock == 2       \* last clock tick
MaxCalls == 3       \* provider calls a direct caller makes in one run
MaxRequests == 2    \* HTTP requests the server receives in one run

----------------------------------------------------------------------------
(* Strings.                                                                *)

sEmpty == << >>
sSlash == <<"/">>
sDot == <<".">>
sDotDot == <<".", ".">>
sActive == <<"a", "c", "t", "i", "v", "e">>
sArchived == <<"a", "r", "c", "h", "i", "v", "e", "d">>
sDotJson == <<".", "j", "s", "o", "n">>

Lower == <<"a", "b", "c", "d", "e", "f", "g", "h", "i", "j", "k", "l", "m",
           "n", "o", "p", "q", "r", "s", "t", "u", "v", "w", "x", "y", "z">>
Upper == <<"A", "B", "C", "D", "E", "F", "G", "H", "I", "J", "K", "L", "M",
           "N", "O", "P", "Q", "R", "S", "T", "U", "V", "W", "X", "Y", "Z">>
Digits == <<"0", "1", "2", "3", "4", "5", "6", "7", "8", "9">>

Range(f) == {f[i] : i \in DOMAIN f}

\* String.prototype.startsWith
startsWith(s, p) == Len(p) <= Len(s) /\ SubSeq(s, 1, Len(p)) = p

\* String.prototype.endsWith
endsWith(s, p) == Len(p) <= Len(s) /\ SubSeq(s, Len(s) - Len(p) + 1, Len(s)) = p

\* the position of the first sep in s at or after i, or 0
RECURSIVE indexOf(_, _, _)
indexOf(s, sep, i) ==
    IF i > Len(s) THEN 0
    ELSE IF s[i] = sep THEN i
    ELSE indexOf(s, sep, i + 1)

\* String.prototype.split(sep) for a one-character sep: empty pieces are kept
RECURSIVE split(_, _), splitAt(_, _, _)
split(s, sep) == splitAt(s, sep, indexOf(s, sep, 1))

\* split, given the position i of the first sep (0: none)
splitAt(s, sep, i) ==
    IF i = 0 THEN <<s>>
    ELSE <<SubSeq(s, 1, i - 1)>> \o split(SubSeq(s, i + 1, Len(s)), sep)

\* Array.prototype.join(sep)
RECURSIVE join(_, _)
join(parts, sep) ==
    IF parts = << >> THEN << >>
    ELSE IF Len(parts) = 1 THEN parts[1]
    ELSE parts[1] \o sep \o join(Tail(parts), sep)

----------------------------------------------------------------------------
(* Node's path module, POSIX flavour.                                      *)

cwd == <<"/", "a", "p", "p">>     \* process.cwd(): the image's WORKDIR

\* normalizeString: resolves "." and ".." segments of a split path
RECURSIVE normalizeSegs(_, _, _)
normalizeSegs(segs, acc, isAbs) ==
    IF segs = << >> THEN acc
    ELSE IF segs[1] = sEmpty \/ segs[1] = sDot THEN normalizeSegs(Tail(segs), acc, isAbs)
    ELSE IF segs[1] # sDotDot \/ (~isAbs /\ (acc = << >> \/ acc[Len(acc)] = sDotDot))
         THEN normalizeSegs(Tail(segs), Append(acc, segs[1]), isAbs)
    ELSE normalizeSegs(Tail(segs),
                       IF acc = << >> THEN acc ELSE SubSeq(acc, 1, Len(acc) - 1), isAbs)

isAbsolute(p) == p # sEmpty /\ p[1] = "/"

\* path.normalize, from the normalized segments on
normalized(body, isAbs, trailing) ==
    IF isAbs THEN sSlash \o (IF body # sEmpty /\ trailing THEN body \o sSlash ELSE body)
    ELSE IF body = sEmpty THEN (IF trailing THEN <<".", "/">> ELSE sDot)
    ELSE IF trailing THEN body \o sSlash
    ELSE body

\* path.normalize
normalize(p) ==
    IF p = sEmpty THEN sDot
    ELSE normalized(join(normalizeSegs(split(p, "/"), << >>, isAbsolute(p)), sSlash),
                    isAbsolute(p), p[Len(p)] = "/")

\* path.join(a, b): empty arguments are skipped, the rest joined by "/" and normalized
pathJoin(a, b) ==
    IF a = sEmpty /\ b = sEmpty THEN sDot
    ELSE normalize(IF a = sEmpty THEN b ELSE IF b = sEmpty THEN a ELSE a \o sSlash \o b)

\* path.resolve(p): absolute, normalized, no trailing slash
pathResolve(p) ==
    sSlash \o join(normalizeSegs(split(IF isAbsolute(p) THEN p ELSE cwd \o sSlash \o p, "/"),
                                 << >>, TRUE), sSlash)

\* the path without its trailing slashes (a lone "/" is kept)
RECURSIVE stripTrailing(_)
stripTrailing(p) ==
    IF Len(p) > 1 /\ p[Len(p)] = "/" THEN stripTrailing(SubSeq(p, 1, Len(p) - 1))
    ELSE p

lastOf(parts) == parts[Len(parts)]

\* path.basename
basename(p) == lastOf(split(stripTrailing(p), "/"))

----------------------------------------------------------------------------
(* JSON values, JSON.stringify and JSON.parse.                             *)
(*                                                                         *)
(* A value is [t, n, s, items]: t its type, n a number's value or the      *)
(* count of filler characters that follow a string's s, items an array's   *)
(* values or an object's members [k, v] in insertion order.  Serialized    *)
(* text is a sequence of tokens [k, s, n]; ByteLength counts its bytes.    *)

jNull == [t |-> "null", n |-> 0, s |-> sEmpty, items |-> << >>]
jNum(d) == [t |-> "num", n |-> d, s |-> sEmpty, items |-> << >>]
jStr(chars, fill) == [t |-> "str", n |-> fill, s |-> chars, items |-> << >>]
jArr(vals) == [t |-> "arr", n |-> 0, s |-> sEmpty, items |-> vals]
jObj(members) == [t |-> "obj", n |-> 0, s |-> sEmpty, items |-> members]

tokP(c) == [k |-> "p", s |-> <<c>>, n |-> 0]
tokNull == [k |-> "lit", s |-> <<"n", "u", "l", "l">>, n |-> 0]
tokNum(d) == [k |-> "num", s |-> <<Digits[d + 1]>>, n |-> 0]
tokStr(chars, fill) == [k |-> "str", s |-> chars, n |-> fill]
tokWs(width) == [k |-> "ws", s |-> sEmpty, n |-> width]

\* the separator JSON.stringify writes before an item at this depth:
\* a newline and the indentation when indent > 0, nothing otherwise
gap(indent, depth) == IF indent = 0 THEN << >> ELSE <<tokWs(1 + indent * depth)>>

RECURSIVE stringifyAt(_, _, _), stringifyItems(_, _, _, _), stringifyMembers(_, _, _, _)
\* JSON.stringify(v, null, indent), v nested at depth
stringifyAt(v, indent, depth) ==
    CASE v.t = "null" -> <<tokNull>>
      [] v.t = "num" -> <<tokNum(v.n)>>
      [] v.t = "str" -> <<tokStr(v.s, v.n)>>
      [] v.t = "arr" ->
            IF v.items = << >> THEN <<tokP("["), tokP("]")>>
            ELSE <<tokP("[")>> \o stringifyItems(v.items, indent, depth + 1, TRUE)
                 \o gap(indent, depth) \o <<tokP("]")>>
      [] v.t = "obj" ->
            IF v.items = << >> THEN <<tokP("{"), tokP("}")>>
            ELSE <<tokP("{")>> \o stringifyMembers(v.items, indent, depth + 1, TRUE)
                 \o gap(indent, depth) \o <<tokP("}")>>

stringifyItems(vals, indent, depth, first) ==
    IF vals = << >> THEN << >>
    ELSE (IF first THEN << >> ELSE <<tokP(",")>>) \o gap(indent, depth)
         \o stringifyAt(vals[1], indent, depth)
         \o stringifyItems(Tail(vals), indent, depth, FALSE)

stringifyMembers(ms, indent, depth, first) ==
    IF ms = << >> THEN << >>
    ELSE (IF first THEN << >> ELSE <<tokP(",")>>) \o gap(indent, depth)
         \o <<tokStr(ms[1].k, 0), tokP(":")>>
         \o (IF indent = 0 THEN << >> ELSE <<tokWs(1)>>)
         \o stringifyAt(ms[1].v, indent, depth)
         \o stringifyMembers(Tail(ms), indent, depth, FALSE)

\* JSON.stringify(v, null, indent)
stringify(v, indent) == stringifyAt(v, indent, 0)

\* the bytes of one token
tokenBytes(x) ==
    CASE x.k = "str" -> Len(x.s) + x.n + 2
      [] x.k = "ws" -> x.n
      [] OTHER -> Len(x.s)

\* Buffer.byteLength of serialized text
RECURSIVE ByteLength(_)
ByteLength(toks) ==
    IF toks = << >> THEN 0 ELSE tokenBytes(toks[1]) + ByteLength(Tail(toks))

RECURSIVE dropWs(_)
dropWs(toks) ==
    IF toks = << >> THEN << >>
    ELSE (IF toks[1].k = "ws" THEN << >> ELSE <<toks[1]>>) \o dropWs(Tail(toks))

digitValue(c) == CHOOSE d \in 0..9 : Digits[d + 1] = c

parseFail == [ok |-> FALSE, v |-> jNull, next |-> 0]

RECURSIVE parseValue(_, _), parseItems(_, _, _), itemParsed(_, _, _),
          parseMembers(_, _, _), memberParsed(_, _, _, _)
\* the value that starts at token i of toks, and the position after it
parseValue(toks, i) ==
    IF i > Len(toks) THEN parseFail
    ELSE CASE toks[i].k = "lit" -> [ok |-> TRUE, v |-> jNull, next |-> i + 1]
           [] toks[i].k = "num" ->
                 [ok |-> TRUE, v |-> jNum(digitValue(toks[i].s[1])), next |-> i + 1]
           [] toks[i].k = "str" ->
                 [ok |-> TRUE, v |-> jStr(toks[i].s, toks[i].n), next |-> i + 1]
           [] toks[i] = tokP("[") ->
                 IF i + 1 <= Len(toks) /\ toks[i + 1] = tokP("]")
                 THEN [ok |-> TRUE, v |-> jArr(<< >>), next |-> i + 2]
                 ELSE parseItems(toks, i + 1, << >>)
           [] toks[i] = tokP("{") ->
                 IF i + 1 <= Len(toks) /\ toks[i + 1] = tokP("}")
                 THEN [ok |-> TRUE, v |-> jObj(<< >>), next |-> i + 2]
                 ELSE parseMembers(toks, i + 1, << >>)
           [] OTHER -> parseFail

\* the rest of an array whose items so far are acc
parseItems(toks, i, acc) == itemParsed(toks, parseValue(toks, i), acc)

itemParsed(toks, r, acc) ==
    IF ~r.ok \/ r.next > Len(toks) THEN parseFail
    ELSE IF toks[r.next] = tokP(",") THEN parseItems(toks, r.next + 1, Append(acc, r.v))
    ELSE IF toks[r.next] = tokP("]")
         THEN [ok |-> TRUE, v |-> jArr(Append(acc, r.v)), next |-> r.next + 1]
    ELSE parseFail

\* the rest of an object whose members so far are acc
parseMembers(toks, i, acc) ==
    IF i + 1 > Len(toks) \/ toks[i].k # "str" \/ toks[i].n # 0 \/ toks[i + 1] # tokP(":")
    THEN parseFail
    ELSE memberParsed(toks, toks[i].s, parseValue(toks, i + 2), acc)

memberParsed(toks, key, r, acc) ==
    IF ~r.ok \/ r.next > Len(toks) THEN parseFail
    ELSE IF toks[r.next] = tokP(",")
         THEN parseMembers(toks, r.next + 1, Append(acc, [k |-> key, v |-> r.v]))
    ELSE IF toks[r.next] = tokP("}")
         THEN [ok |-> TRUE, v |-> jObj(Append(acc, [k |-> key, v |-> r.v])),
               next |-> r.next + 1]
    ELSE parseFail

\* JSON.parse accepts r when it consumed all n tokens
parsedAll(r, n) ==
    IF r.ok /\ r.next = n + 1 THEN [ok |-> TRUE, v |-> r.v] ELSE [ok |-> FALSE, v |-> jNull]

parseTokens(t) == parsedAll(parseValue(t, 1), Len(t))

\* JSON.parse: whitespace between tokens is skipped, trailing text is an error
parse(toks) == parseTokens(dropWs(toks))

\* v[key] of a parsed value: the member's value, or undefined
hasMember(v, key) == v.t = "obj" /\ \E i \in DOMAIN v.items : v.items[i].k = key
member(v, key) ==
    v.items[CHOOSE j \in DOMAIN v.items :
                v.items[j].k = key /\ \A l \in DOMAIN v.items : v.items[l].k = key => l <= j].v

\* JavaScript truthiness of a JSON value
truthy(v) ==
    CASE v.t = "null" -> FALSE
      [] v.t = "num" -> v.n # 0
      [] v.t = "str" -> Len(v.s) + v.n > 0
      [] OTHER -> TRUE

----------------------------------------------------------------------------
(* The backend: objects (files, blobs) in directory order.  Directories    *)
(* are implied by the keys below them (mkdir -p leaves nothing to list).   *)

\* the position of key in the store, or 0
keyIndex(st, key) ==
    IF \E i \in DOMAIN st : st[i].key = key
    THEN CHOOSE i \in DOMAIN st : st[i].key = key
    ELSE 0

exists(st, key) == \E i \in DOMAIN st : st[i].key = key

bodyOf(st, key) == st[keyIndex(st, key)].body

\* a write that never replaces: the object is added at pos even when its key is there
putAt_append(st, obj, i, pos) == SubSeq(st, 1, pos - 1) \o <<obj>> \o SubSeq(st, pos, Len(st))

\* a write of obj: the object at i is replaced where it stands; with i = 0
\* the new object takes directory position pos
putAt(st, obj, i, pos) ==
    IF i # 0 THEN [st EXCEPT ![i] = obj]
    ELSE SubSeq(st, 1, pos - 1) \o <<obj>> \o SubSeq(st, pos, Len(st))

putObject(st, key, body, t, pos) ==
    putAt(st, [key |-> key, body |-> body, mtime |-> t], keyIndex(st, key), pos)

removeAt(st, i) == SubSeq(st, 1, i - 1) \o SubSeq(st, i + 1, Len(st))

removeObject(st, key) == removeAt(st, keyIndex(st, key))

\* errors as the handlers see them: error.name and error.code
noError == [name |-> "", code |-> ""]
errENOENT == [name |-> "Error", code |-> "ENOENT"]
errENOTDIR == [name |-> "Error", code |-> "ENOTDIR"]
errEISDIR == [name |-> "Error", code |-> "EISDIR"]
errEEXIST == [name |-> "Error", code |-> "EEXIST"]
errNoSuchKey == [name |-> "NoSuchKey", code |-> ""]
errGcs404 == [name |-> "ApiError", code |-> "404"]
errBlobNotFound == [name |-> "RestError", code |-> "BlobNotFound"]
errSyntax == [name |-> "SyntaxError", code |-> ""]
errUnavailable == [name |-> "Error", code |-> "UNAVAILABLE"]

NotFoundErrors == {errENOENT, errNoSuchKey, errGcs404, errBlobNotFound}

\* the outcome of a provider call: the value returned or the error thrown,
\* and the store it leaves
returned(val, st) == [ok |-> TRUE, err |-> noError, val |-> val, store |-> st]
thrown(err, st) == [ok |-> FALSE, err |-> err, val |-> jNull, store |-> st]

----------------------------------------------------------------------------
(* Provider construction.                                                  *)

sS3 == <<"s", "3", ":", "/", "/">>
sAzure == <<"a", "z", "u", "r", "e", ":", "/", "/">>
sGs == <<"g", "s", ":", "/", "/">>
sGcs == <<"g", "c", "s", ":", "/", "/">>

\* String.prototype.replace(/^\//, '')
stripLeadingSlash(x) == IF startsWith(x, sSlash) THEN Tail(x) ELSE x

\* new S3StorageProvider(bucket, prefix)
S3StorageProvider(bucket, prefix) ==
    [variant |-> "S3", basePath |-> bucket, prefix |-> prefix,
     activePath |-> stripLeadingSlash(prefix \o sSlash \o sActive),
     archivedPath |-> stripLeadingSlash(prefix \o sSlash \o sArchived)]

\* new GCSStorageProvider(bucket, prefix)
GCSStorageProvider(bucket, prefix) ==
    [variant |-> "GCS", basePath |-> bucket, prefix |-> prefix,
     activePath |-> IF prefix # sEmpty THEN prefix \o sSlash \o sActive ELSE sActive,
     archivedPath |-> IF prefix # sEmpty THEN prefix \o sSlash \o sArchived ELSE sArchived]

\* new AzureStorageProvider(blobLocation, prefix)
AzureStorageProvider(blobLocation, prefix) ==
    [variant |-> "Azure", basePath |-> blobLocation, prefix |-> prefix,
     activePath |-> IF prefix # sEmpty THEN prefix \o sSlash \o sActive ELSE sActive,
     archivedPath |-> IF prefix # sEmpty THEN prefix \o sSlash \o sArchived ELSE sArchived]

\* the filesystem provider's fields, given this.basePath and prefixPath
FS_fields(base, prefix, prefixPath) ==
    [variant |-> "Filesystem", basePath |-> base, prefix |-> prefix,
     activePath |-> pathJoin(prefixPath, sActive),
     archivedPath |-> pathJoin(prefixPath, sArchived)]

FS_rooted(base, prefix) ==
    FS_fields(base, prefix, IF prefix # sEmpty THEN pathJoin(base, prefix) ELSE base)

\* new FilesystemStorageProvider(basePath, prefix)
FilesystemStorageProvider(basePath, prefix) == FS_rooted(pathResolve(basePath), prefix)

\* createStorageProvider(storageLocation, storagePrefix), storageLocation non-empty
createStorageProvider(storageLocation, storagePrefix) ==
    IF startsWith(storageLocation, sS3)
    THEN S3StorageProvider(SubSeq(storageLocation, 6, Len(storageLocation)), storagePrefix)
    ELSE IF startsWith(storageLocation, sAzure)
    THEN AzureStorageProvider(SubSeq(storageLocation, 9, Len(storageLocation)), storagePrefix)
    ELSE IF startsWith(storageLocation, sGs) \/ startsWith(storageLocation, sGcs)
    THEN GCSStorageProvider(
             SubSeq(storageLocation, IF startsWith(storageLocation, sGs) THEN 6 ELSE 7,
                    Len(storageLocation)), storagePrefix)
    ELSE FilesystemStorageProvider(storageLocation, storagePrefix)

----------------------------------------------------------------------------
(* Numbers and text order.                                                 *)

\* String(n)
RECURSIVE numToStr(_)
numToStr(n) ==
    IF n < 0 THEN <<"-">> \o numToStr(0 - n)
    ELSE IF n < 10 THEN <<Digits[n + 1]>>
    ELSE numToStr(n \div 10) \o <<Digits[(n % 10) + 1]>>

\* NaN stands apart from every number that the texts of the model parse to
NaN == -1000000

\* the value of the leading digits of s, after acc
RECURSIVE parseDigits(_, _)
parseDigits(s, acc) ==
    IF s = << >> \/ s[1] \notin Range(Digits) THEN acc
    ELSE parseDigits(Tail(s), 10 * acc + digitValue(s[1]))

\* the number in front of text that has no sign: NaN without a digit
parseNatural(s) ==
    IF s = << >> \/ s[1] \notin Range(Digits) THEN NaN
    ELSE parseDigits(s, 0)

\* -n, and NaN for NaN
negated(n) == IF n = NaN THEN NaN ELSE 0 - n

\* parseInt(s, 10) of text without leading blanks or '+': an optional '-',
\* then the leading digits; NaN without a digit
parseInt(s) ==
    IF s # << >> /\ s[1] = "-" THEN negated(parseNatural(Tail(s)))
    ELSE parseNatural(s)

\* the characters in code-unit order
Ascii == <<" ", "-", ".", "/">> \o Digits \o <<":">> \o Upper \o <<"_">> \o Lower

ord(c) == CHOOSE i \in DOMAIN Ascii : Ascii[i] = c

\* a < b in the backends' (binary) key order
RECURSIVE keyLess(_, _)
keyLess(a, b) ==
    IF b = << >> THEN FALSE
    ELSE IF a = << >> THEN TRUE
    ELSE IF a[1] = b[1] THEN keyLess(Tail(a), Tail(b))
    ELSE ord(a[1]) < ord(b[1])

\* null and undefined of a token or a field
NULL == <<"null">>

\* JavaScript falsiness of an optional string
falsy(x) == x = NULL \/ x = sEmpty

\* x || undefined, x || null
orNull(x) == IF falsy(x) THEN NULL ELSE x

----------------------------------------------------------------------------
(* The listing calls of the backends: ListObjectsV2 (S3), bucket.getFiles  *)
(* (GCS), listBlobsFlat().byPage() (Azure).  Items come in key order, at   *)
(* most max per page; a delimited listing rolls the keys below a           *)
(* sub-directory up into one prefix, which counts as one item.  The token  *)
(* of a truncated page names its last item.                                *)

\* subPath.endsWith('/') ? subPath : `${subPath}/`
withSlash(subPath) == IF endsWith(subPath, sSlash) THEN subPath ELSE subPath \o sSlash

\* the item obj is listed as, given the position i of the delimiter after
\* the prefix (0: none)
listedAt(obj, i) ==
    IF i = 0
    THEN [name |-> obj.key, dir |-> FALSE, size |-> ByteLength(obj.body), mtime |-> obj.mtime]
    ELSE [name |-> SubSeq(obj.key, 1, i), dir |-> TRUE, size |-> -1, mtime |-> -1]

listedAs(obj, prefix, delimited) ==
    listedAt(obj, IF delimited THEN indexOf(obj.key, "/", Len(prefix) + 1) ELSE 0)

listedUnder(st, prefix, delimited) ==
    { listedAs(st[i], prefix, delimited) :
        i \in { j \in DOMAIN st : startsWith(st[j].key, prefix) } }

afterToken(items, token) ==
    IF falsy(token) THEN items ELSE { o \in items : keyLess(token, o.name) }

RECURSIVE inKeyOrder(_), orderFrom(_, _)
inKeyOrder(items) ==
    IF items = {} THEN << >>
    ELSE orderFrom(items, CHOOSE m \in items : \A o \in items : o = m \/ keyLess(m.name, o.name))

orderFrom(items, m) == <<m>> \o inKeyOrder(items \ {m})

firstPage(items, max) ==
    [items |-> SubSeq(items, 1, IF Len(items) < max THEN Len(items) ELSE max),
     more |-> Len(items) > max]

listBackend(st, prefix, delimited, max, token) ==
    firstPage(inKeyOrder(afterToken(listedUnder(st, prefix, delimited), token)), max)

tokenOf(page) == IF page.more THEN page.items[Len(page.items)].name ELSE NULL

isObject(o) == ~o.dir
isPrefix(o) == o.dir

\* the ListObjectsV2Output for the objects and the prefixes of a page
s3Output(objects, prefixes, page) ==
    [Contents |-> [i \in DOMAIN objects |->
                     [Key |-> objects[i].name, Size |-> objects[i].size,
                      LastModified |-> objects[i].mtime]],
     CommonPrefixes |-> [i \in DOMAIN prefixes |-> [Prefix |-> prefixes[i].name]],
     IsTruncated |-> IF page.more THEN "true" ELSE "false",
     NextContinuationToken |-> tokenOf(page)]

s3Response(page) ==
    s3Output(SelectSeq(page.items, isObject), SelectSeq(page.items, isPrefix), page)

\* client.send(new ListObjectsV2Command({Prefix, Delimiter: '/', MaxKeys, ContinuationToken}))
ListObjectsV2(st, Prefix, MaxKeys, ContinuationToken) ==
    s3Response(listBackend(st, Prefix, TRUE, MaxKeys, ContinuationToken))

\* [files, nextQuery, apiResponse] of bucket.getFiles for the objects and
\* the prefixes of a page; nextQuery is null after the last page
gcsOutput(objects, prefixes, page) ==
    [files |-> [i \in DOMAIN objects |->
                  [name |-> objects[i].name, size |-> numToStr(objects[i].size),
                   updated |-> objects[i].mtime]],
     nextQuery |-> [defined |-> page.more, pageToken |-> tokenOf(page)],
     prefixes |-> [i \in DOMAIN prefixes |-> prefixes[i].name]]

gcsResponse(page) ==
    gcsOutput(SelectSeq(page.items, isObject), SelectSeq(page.items, isPrefix), page)

\* bucket.getFiles({prefix, delimiter: '/', maxResults, autoPaginate: false, pageToken})
getFiles(st, prefix, maxResults, pageToken) ==
    gcsResponse(listBackend(st, prefix, TRUE, maxResults, pageToken))

\* the first result of the page iterator: a segment and the token ('' at the end)
azureResponse(page) ==
    [done |-> FALSE,
     blobItems |-> [i \in DOMAIN page.items |->
                      [name |-> page.items[i].name,
                       contentLength |-> page.items[i].size,
                       lastModified |-> page.items[i].mtime]],
     continuationToken |-> IF page.more THEN tokenOf(page) ELSE sEmpty]

\* containerClient.listBlobsFlat({prefix}).byPage({maxPageSize, continuationToken}).next()
listBlobsFlat(st, prefix, maxPageSize, continuationToken) ==
    azureResponse(listBackend(st, prefix, FALSE, maxPageSize, continuationToken))

----------------------------------------------------------------------------
(* listFiles(subPath, limit, continuationToken) of the four providers.     *)
(* An entry is [key, name, size, lastModified, type]; a field the provider *)
(* does not set is -1 (size, lastModified) or "undefined" (type).          *)

\* dirPath.slice(0, -1).split('/').pop()
directoryName(dirPath) == lastOf(split(SubSeq(dirPath, 1, Len(dirPath) - 1), "/"))

directoryEntry(dirPath) ==
    [key |-> dirPath, name |-> directoryName(dirPath), size |-> -1, lastModified |-> -1,
     type |-> "directory"]

fileEntry(key, size, lastModified, type) ==
    [key |-> key, name |-> basename(key), size |-> size, lastModified |-> lastModified,
     type |-> type]

\* (response.CommonPrefixes || []).map(...)
S3_directories(prefixes) == [i \in DOMAIN prefixes |-> directoryEntry(prefixes[i].Prefix)]

\* .map(obj => ({key, name, size, lastModified, type: 'file'})) of the filtered Contents
S3_files(objs) ==
    [i \in DOMAIN objs |-> fileEntry(objs[i].Key, objs[i].Size, objs[i].LastModified, "file")]

\* a page that takes every object of Contents for a file
S3_page_unfiltered(response, prefix) ==
    [files |-> S3_directories(response.CommonPrefixes) \o S3_files(response.Contents),
     nextContinuationToken |-> orNull(response.NextContinuationToken),
     hasMore |-> response.IsTruncated = "true"]

\* the page S3 listFiles builds from the response
S3_page(response, prefix) ==
    [files |-> S3_directories(response.CommonPrefixes)
               \o S3_files(SelectSeq(response.Contents,
                                     LAMBDA obj : endsWith(obj.Key, sDotJson) /\ obj.Key # prefix)),
     nextContinuationToken |-> orNull(response.NextContinuationToken),
     hasMore |-> response.IsTruncated = "true"]

S3_listPrefix(st, prefix, limit, continuationToken) ==
    S3_page(ListObjectsV2(st, prefix, limit, orNull(continuationToken)), prefix)

S3_listFiles(st, subPath, limit, continuationToken) ==
    S3_listPrefix(st, withSlash(subPath), limit, continuationToken)

GCS_directories(prefixes) == [i \in DOMAIN prefixes |-> directoryEntry(prefixes[i])]

GCS_files(files) ==
    [i \in DOMAIN files |->
        fileEntry(files[i].name, parseInt(files[i].size), files[i].updated, "file")]

\* nextQuery?.pageToken
GCS_pageToken(nextQuery) == IF nextQuery.defined THEN nextQuery.pageToken ELSE NULL

\* the page GCS listFiles builds from the response
GCS_page(response, prefix) ==
    [files |-> GCS_directories(response.prefixes)
               \o GCS_files(SelectSeq(response.files,
                                      LAMBDA file : endsWith(file.name, sDotJson) /\ file.name # prefix)),
     nextContinuationToken |-> orNull(GCS_pageToken(response.nextQuery)),
     hasMore |-> ~falsy(GCS_pageToken(response.nextQuery))]

GCS_listPrefix(st, prefix, limit, continuationToken) ==
    GCS_page(getFiles(st, prefix, limit, continuationToken), prefix)

GCS_listFiles(st, subPath, limit, continuationToken) ==
    GCS_listPrefix(st, withSlash(subPath), limit, continuationToken)

Azure_files(blobs) ==
    [i \in DOMAIN blobs |->
        fileEntry(blobs[i].name, blobs[i].contentLength, blobs[i].lastModified, "undefined")]

emptyPage == [files |-> << >>, nextContinuationToken |-> NULL, hasMore |-> FALSE]

\* the page Azure listFiles builds from the iterator's first result
Azure_page(response) ==
    IF response.done THEN emptyPage
    ELSE [files |-> Azure_files(SelectSeq(response.blobItems,
                                          LAMBDA blob : endsWith(blob.name, sDotJson))),
          nextContinuationToken |-> orNull(response.continuationToken),
          hasMore |-> ~falsy(orNull(response.continuationToken))]

Azure_listFiles(st, subPath, limit, continuationToken) ==
    Azure_page(listBlobsFlat(st, withSlash(subPath), limit, orNull(continuationToken)))

\* a path is a directory when a file lies below it; the root always is
isDirectory(st, dirPath) ==
    dirPath = sSlash \/ \E i \in DOMAIN st : startsWith(st[i].key, withSlash(dirPath))

\* entry.isFile() && entry.name.endsWith('.json') for the object at key,
\* an entry of the directory with path dir (ending in "/")
FS_isJsonFileIn(key, dir) ==
    /\ startsWith(key, dir)
    /\ Len(key) > Len(dir)
    /\ indexOf(key, "/", Len(dir) + 1) = 0
    /\ endsWith(SubSeq(key, Len(dir) + 1, Len(key)), sDotJson)

\* the entry pushed for the directory entry called name
FS_entry(obj, dirPath, name) ==
    [key |-> pathJoin(dirPath, name), name |-> name, size |-> ByteLength(obj.body),
     lastModified |-> obj.mtime, type |-> "undefined"]

FS_entries(objs, dirPath, dir) ==
    [i \in DOMAIN objs |->
        FS_entry(objs[i], dirPath, SubSeq(objs[i].key, Len(dir) + 1, Len(objs[i].key)))]

\* allFiles after the loop over fs.readdir(dirPath)
FS_scanDir(st, dirPath, dir) ==
    FS_entries(SelectSeq(st, LAMBDA obj : FS_isJsonFileIn(obj.key, dir)), dirPath, dir)

FS_scan(st, dirPath) == FS_scanDir(st, dirPath, withSlash(dirPath))

\* x in front of the first file of s that is not newer than x
RECURSIVE insertByDate(_, _)
insertByDate(x, s) ==
    IF s = << >> THEN <<x>>
    ELSE IF s[1].lastModified <= x.lastModified THEN <<x>> \o s
    ELSE <<s[1]>> \o insertByDate(x, Tail(s))

\* allFiles.sort((a, b) => b.lastModified - a.lastModified): stable, newest first
RECURSIVE sortByLastModified(_)
sortByLastModified(files) ==
    IF files = << >> THEN << >>
    ELSE insertByDate(files[1], sortByLastModified(Tail(files)))

\* slice that also takes the element at end
slice_inclusive(s, start, end) == SubSeq(s, start + 1, IF end + 1 < Len(s) THEN end + 1 ELSE Len(s))

\* the index slice takes for i in an array of length n: a negative one
\* counts from the end, and none lies outside 0..n
relativeIndex(i, n) ==
    IF i < 0 THEN (IF n + i < 0 THEN 0 ELSE n + i)
    ELSE IF i > n THEN n ELSE i

\* Array.prototype.slice(start, end)
slice(s, start, end) ==
    SubSeq(s, relativeIndex(start, Len(s)) + 1, relativeIndex(end, Len(s)))

\* endIndex one short of startIndex + limit
endIndexOf_short(startIndex, limit) == startIndex + limit - 1

\* const endIndex = startIndex + limit
endIndexOf(startIndex, limit) == startIndex + limit

\* the page for allFiles from startIndex up to endIndex
FS_page(allFiles, startIndex, endIndex) ==
    [files |-> slice(allFiles, startIndex, endIndex),
     nextContinuationToken |-> IF endIndex < Len(allFiles) THEN numToStr(endIndex) ELSE NULL,
     hasMore |-> endIndex < Len(allFiles)]

\* the pagination of allFiles; with a token that is no number, slice(NaN, NaN)
\* is empty and NaN < length is false
FS_paginate(allFiles, startIndex, limit) ==
    IF startIndex = NaN THEN emptyPage
    ELSE FS_page(allFiles, startIndex, endIndexOf(startIndex, limit))

\* a listing without the catch around fs.access: a missing path is an error
FS_listDir_throws(st, dirPath, limit, continuationToken) ==
    IF exists(st, dirPath) THEN thrown(errENOTDIR, st)
    ELSE IF ~isDirectory(st, dirPath) THEN thrown(errENOENT, st)
    ELSE returned(FS_paginate(sortByLastModified(FS_scan(st, dirPath)),
                              IF falsy(continuationToken) THEN 0
                              ELSE parseInt(continuationToken),
                              limit), st)

\* listFiles once dirPath is resolved: fs.access fails on a missing path,
\* fs.readdir fails on a file
FS_listDir(st, dirPath, limit, continuationToken) ==
    IF exists(st, dirPath) THEN thrown(errENOTDIR, st)
    ELSE IF ~isDirectory(st, dirPath) THEN returned(emptyPage, st)
    ELSE returned(FS_paginate(sortByLastModified(FS_scan(st, dirPath)),
                              IF falsy(continuationToken) THEN 0
                              ELSE parseInt(continuationToken),
                              limit), st)

FS_listFiles(st, subPath, limit, continuationToken) ==
    FS_listDir(st, pathResolve(subPath), limit, continuationToken)

\* provider.listFiles(subPath, limit, continuationToken)
listFiles(p, st, subPath, limit, continuationToken) ==
    CASE p.variant = "S3" -> returned(S3_listFiles(st, subPath, limit, continuationToken), st)
      [] p.variant = "GCS" -> returned(GCS_listFiles(st, subPath, limit, continuationToken), st)
      [] p.variant = "Azure" -> returned(Azure_listFiles(st, subPath, limit, continuationToken), st)
      [] p.variant = "Filesystem" -> FS_listFiles(st, subPath, limit, continuationToken)

----------------------------------------------------------------------------
(* getFile, copyFile, deleteFile and saveFile of the four providers.  up   *)
(* tells whether the backend answers the call; t is the time of a write    *)
(* and pos the directory position a new file takes.  Text is ASCII, so     *)
(* data.length and the byte length of the serialized document agree.       *)

\* the error a missing object raises
notFound(p) ==
    CASE p.variant = "S3" -> errNoSuchKey
      [] p.variant = "GCS" -> errGcs404
      [] p.variant = "Azure" -> errBlobNotFound
      [] p.variant = "Filesystem" -> errENOENT

\* the error for a path that is no file: a directory, or nothing
notAFile(p, st, path) ==
    IF p.variant = "Filesystem" /\ isDirectory(st, path) THEN errEISDIR ELSE notFound(p)

\* the position of the last "/" of s at or before i, or 0
RECURSIVE lastSlash(_, _)
lastSlash(s, i) ==
    IF i = 0 THEN 0
    ELSE IF s[i] = "/" THEN i
    ELSE lastSlash(s, i - 1)

dirnameAt(p, i) == IF i <= 1 THEN (IF i = 1 THEN sSlash ELSE sDot) ELSE SubSeq(p, 1, i - 1)

\* path.dirname of a normalized path
dirname(p) == dirnameAt(p, lastSlash(p, Len(p)))

\* fs.mkdir(dir, {recursive: true}) fails when dir or a directory above it is a file
mkdirFails(st, dir) ==
    \E i \in 2..(Len(dir) + 1) :
        /\ i = Len(dir) + 1 \/ dir[i] = "/"
        /\ exists(st, SubSeq(dir, 1, i - 1))

mkdirError(st, dir) == IF exists(st, dir) THEN errEEXIST ELSE errENOTDIR

\* JSON.parse(content) of the text read
parsed(r, st) == IF r.ok THEN returned(r.v, st) ELSE thrown(errSyntax, st)

readAt(p, st, path, up) ==
    IF ~up THEN thrown(errUnavailable, st)
    ELSE IF exists(st, path) THEN parsed(parse(bodyOf(st, path)), st)
    ELSE thrown(notAFile(p, st, path), st)

\* the path getFile reads: path.join(this.basePath, key), or the key itself
getPath(p, key) == IF p.variant = "Filesystem" THEN pathJoin(p.basePath, key) ELSE key

\* provider.getFile(key)
getFile(p, st, key, up) == readAt(p, st, getPath(p, key), up)

\* the path copyFile and deleteFile act on: path.resolve(key), or the key itself
resolvePath(p, key) == IF p.variant = "Filesystem" THEN pathResolve(key) ELSE key

\* a copy that moves: the source is gone once the destination is written
copyAt_move(p, st, src, dst, up, t, pos) ==
    IF ~up THEN thrown(errUnavailable, st)
    ELSE IF ~exists(st, src) THEN thrown(notAFile(p, st, src), st)
    ELSE returned(jNull, removeObject(putObject(st, dst, bodyOf(st, src), t, pos), src))

copyAt(p, st, src, dst, up, t, pos) ==
    IF ~up THEN thrown(errUnavailable, st)
    ELSE IF p.variant = "Filesystem" /\ mkdirFails(st, dirname(dst))
         THEN thrown(mkdirError(st, dirname(dst)), st)
    ELSE IF ~exists(st, src) THEN thrown(notAFile(p, st, src), st)
    ELSE IF p.variant = "Filesystem" /\ isDirectory(st, dst) THEN thrown(errEISDIR, st)
    ELSE returned(jNull, putObject(st, dst, bodyOf(st, src), t, pos))

\* provider.copyFile(sourceKey, destKey)
copyFile(p, st, sourceKey, destKey, up, t, pos) ==
    copyAt(p, st, resolvePath(p, sourceKey), resolvePath(p, destKey), up, t, pos)

\* a delete that takes effect although the call fails
deleteAt_lost(p, st, path, up) ==
    IF exists(st, path)
    THEN (IF up THEN returned(jNull, removeObject(st, path))
          ELSE thrown(errUnavailable, removeObject(st, path)))
    ELSE IF p.variant = "S3" /\ up THEN returned(jNull, st)
    ELSE thrown(errUnavailable, st)

\* a delete that reports success and removes nothing
deleteAt_kept(p, st, path, up) ==
    IF ~up THEN thrown(errUnavailable, st) ELSE returned(jNull, st)

\* DeleteObject of a missing key succeeds; the other backends raise not-found
deleteAt(p, st, path, up) ==
    IF ~up THEN thrown(errUnavailable, st)
    ELSE IF exists(st, path) THEN returned(jNull, removeObject(st, path))
    ELSE IF p.variant = "S3" THEN returned(jNull, st)
    ELSE thrown(notAFile(p, st, path), st)

\* provider.deleteFile(key)
deleteFile(p, st, key, up) == deleteAt(p, st, resolvePath(p, key), up)

\* the key saveFile writes and returns
saveKey(p, filename) ==
    IF p.variant = "Filesystem" THEN pathJoin(p.activePath, filename)
    ELSE p.activePath \o sSlash \o filename

\* the directory of dir exists once activePath is made
parentExists(p, st, dir) ==
    startsWith(withSlash(p.activePath), withSlash(dir)) \/ isDirectory(st, dir)

\* fs.mkdir(activePath) and fs.writeFile(filePath) can fail; a put cannot
saveError(p, st, key) ==
    IF p.variant # "Filesystem" THEN noError
    ELSE IF mkdirFails(st, p.activePath) THEN mkdirError(st, p.activePath)
    ELSE IF isDirectory(st, key) THEN errEISDIR
    ELSE IF mkdirFails(st, dirname(key)) THEN errENOTDIR
    ELSE IF ~parentExists(p, st, dirname(key)) THEN errENOENT
    ELSE noError

saveAt(st, key, filename, body, err, up, t, pos) ==
    IF ~up THEN thrown(errUnavailable, st)
    ELSE IF err # noError THEN thrown(err, st)
    ELSE returned([key |-> key, filename |-> filename], putObject(st, key, body, t, pos))

saveAs(p, st, key, filename, content, up, t, pos) ==
    saveAt(st, key, filename, stringify(content, 2), saveError(p, st, key), up, t, pos)

\* provider.saveFile(filename, content)
saveFile(p, st, filename, content, up, t, pos) ==
    saveAs(p, st, saveKey(p, filename), filename, content, up, t, pos)

\* where a new object can come to stand: anywhere in a directory's order;
\* a bucket has no order of its own
positions(p, st) ==
    IF p.variant = "Filesystem" THEN 1..(Len(st) + 1) ELSE {Len(st) + 1}

----------------------------------------------------------------------------
(* Documents and names the calls are made with.                            *)

sResults == <<"R", "e", "s", "u", "l", "t", "s">>
sOther == <<"x">>

docEmpty == jObj(<< >>)
docOne == jObj(<<[k |-> sResults, v |-> jArr(<< >>)]>>)
docTwo == jObj(<<[k |-> sOther, v |-> jStr(<<"y">>, 0)],
                 [k |-> sResults, v |-> jArr(<<jObj(<<[k |-> sOther, v |-> jNum(1)]>>), jNull>>)]>>)

nameA == <<"a">> \o sDotJson
nameB == <<"b">> \o sDotJson
nameC == <<"c">> \o sDotJson
nameText == <<"c", ".", "t", "x", "t">>
nameNested == <<"d", "/", "e">> \o sDotJson
nameUpper == <<"R", ".", "J", "S", "O", "N">>

noProbe == [input |-> sEmpty, applied |-> FALSE, output |-> FALSE]

----------------------------------------------------------------------------
(* Pagination: a client follows the tokens of listFiles(activePath) over a *)
(* directory that does not change; and listFiles maps any response the     *)
(* backend's client library can hand it.                                   *)

PagedNames == <<nameA, nameB, nameC, nameText, nameNested>>

pagedObject(p, i, t) == [key |-> saveKey(p, PagedNames[i]), body |-> stringify(docOne, 2), mtime |-> t]

\* the directories paged through: up to MaxFiles objects; a directory has
\* them in any order with any modification times, a bucket has no order
PagedStores(p) ==
    IF p.variant = "Filesystem"
    THEN { [i \in DOMAIN s |-> pagedObject(p, s[i][1], s[i][2])] :
             s \in { r \in UNION { [1..n -> (DOMAIN PagedNames) \X (1..MaxClock)] : n \in 0..MaxFiles } :
                       \A i, j \in DOMAIN r : i # j => r[i][1] # r[j][1] } }
    ELSE { [i \in DOMAIN s |-> pagedObject(p, s[i], 1)] :
             s \in { r \in UNION { [1..n -> DOMAIN PagedNames] : n \in 0..MaxFiles } :
                       \A i, j \in DOMAIN r : i < j => r[i] < r[j] } }

PagingProviders ==
    { createStorageProvider(l, sEmpty) :
        l \in { sS3 \o <<"b">>, sAzure \o <<"c", "/", "k">>, sGs \o <<"b">>, <<"/", "d">> } }

newChain == [token |-> NULL, pages |-> << >>, limits |-> << >>, done |-> FALSE]
noResp == [given |-> FALSE, page |-> emptyPage]

InitPaging ==
    /\ provider \in PagingProviders
    /\ store \in PagedStores(provider)
    /\ chain = newChain
    /\ resp = noResp
    /\ now = 0
    /\ last = << >>
    /\ reqs = << >>
    /\ probe = noProbe

\* the chain after a call with this limit returned page
Step(c, page, limit) ==
    [token |-> page.nextContinuationToken, pages |-> Append(c.pages, page),
     limits |-> Append(c.limits, limit), done |-> ~page.hasMore]

\* the client's next call: the token of the last page, any limit >= 1
NextPage ==
    /\ ~chain.done
    /\ Len(chain.pages) < MaxFiles + 2
    /\ \E limit \in 1..MaxLimit :
          chain' = Step(chain,
                        listFiles(provider, store, provider.activePath, limit, chain.token).val,
                        limit)
    /\ UNCHANGED <<provider, store, now, resp, last, reqs, probe>>

\* responses of the client libraries: their fields are set independently
someObject == [name |-> sActive \o sSlash \o nameA, size |-> 0, mtime |-> 1]

S3Responses ==
    [Contents : {<< >>, <<[Key |-> someObject.name, Size |-> 0, LastModified |-> 1]>>},
     CommonPrefixes : {<< >>},
     IsTruncated : {"true", "false", "undefined"},
     NextContinuationToken : {NULL, <<"k">>}]

GCSResponses ==
    [files : {<< >>, <<[name |-> someObject.name, size |-> <<"0">>, updated |-> 1]>>},
     nextQuery : {[defined |-> FALSE, pageToken |-> NULL],
                  [defined |-> TRUE, pageToken |-> NULL],
                  [defined |-> TRUE, pageToken |-> sEmpty],
                  [defined |-> TRUE, pageToken |-> <<"k">>]},
     prefixes : {<< >>}]

AzureResponses ==
    [done : BOOLEAN,
     blobItems : {<< >>, <<[name |-> someObject.name, contentLength |-> 0, lastModified |-> 1]>>},
     continuationToken : {NULL, sEmpty, <<"k">>}]

\* listFiles of an S3 provider maps a response of ListObjectsV2
S3Respond ==
    /\ provider.variant = "S3"
    /\ ~resp.given
    /\ \E r \in S3Responses :
          resp' = [given |-> TRUE, page |-> S3_page(r, withSlash(provider.activePath))]
    /\ UNCHANGED <<provider, store, now, chain, last, reqs, probe>>

\* listFiles of a GCS provider maps a response of getFiles
GCSRespond ==
    /\ provider.variant = "GCS"
    /\ ~resp.given
    /\ \E r \in GCSResponses :
          resp' = [given |-> TRUE, page |-> GCS_page(r, withSlash(provider.activePath))]
    /\ UNCHANGED <<provider, store, now, chain, last, reqs, probe>>

\* listFiles of an Azure provider maps the first result of the page iterator
AzureRespond ==
    /\ provider.variant = "Azure"
    /\ ~resp.given
    /\ \E r \in AzureResponses : resp' = [given |-> TRUE, page |-> Azure_page(r)]
    /\ UNCHANGED <<provider, store, now, chain, last, reqs, probe>>

NextPaging == NextPage \/ S3Respond \/ GCSRespond \/ AzureRespond

SpecPaging == InitPaging /\ [][NextPaging]_vars

----------------------------------------------------------------------------
(* Properties of pagination.                                               *)

\* the keys of the .json files that lie directly in the directory dir ("/" at its end)
Matching(st, dir) ==
    { st[i].key : i \in { j \in DOMAIN st :
                            /\ startsWith(st[j].key, dir)
                            /\ Len(st[j].key) > Len(dir)
                            /\ \A n \in (Len(dir) + 1)..Len(st[j].key) : st[j].key[n] # "/"
                            /\ endsWith(st[j].key, sDotJson) } }

\* where the entries of the chain's pages are: page i, place j
Places(c) == { ij \in (DOMAIN c.pages) \X (1..MaxFiles) : ij[2] <= Len(c.pages[ij[1]].files) }

entryAt(c, ij) == c.pages[ij[1]].files[ij[2]]

ceilDiv(n, d) == (n + d - 1) \div d

atLeastOne(n) == IF n < 1 THEN 1 ELSE n

\* C1: over an unchanging directory and for any limits >= 1, no key is
\* returned twice by the pages of a token chain, and once a page has
\* hasMore = false every .json file of the directory was returned in
\* exactly one page.
C1_ExactlyOnce ==
    /\ \A a, b \in Places(chain) : entryAt(chain, a).key = entryAt(chain, b).key => a = b
    /\ chain.done =>
          \A k \in Matching(store, withSlash(provider.activePath)) :
              \E a \in Places(chain) : entryAt(chain, a).key = k

C1_Witness ==
    /\ provider.variant = "Filesystem"
    /\ chain.done
    /\ chain.limits = <<2, 1>>
    /\ Cardinality(Matching(store, withSlash(provider.activePath))) = 3
    /\ Cardinality(Places(chain)) = 3

\* C2: over an unchanging directory the chain ends: the page that ends it
\* has hasMore = false and a null token, no chain needs more calls than the
\* directory has objects (one for an empty one), and the filesystem variant
\* called with one limit L throughout needs at most ceil(N/L) calls (at
\* least one) for N .json files.
C2_Terminates ==
    /\ Len(chain.pages) <= atLeastOne(Len(store))
    /\ ~chain.done /\ chain.pages # << >> => Len(chain.pages) < Len(store)
    /\ chain.done =>
          /\ chain.token = NULL
          /\ ~chain.pages[Len(chain.pages)].hasMore
          /\ chain.pages[Len(chain.pages)].nextContinuationToken = NULL
    /\ provider.variant = "Filesystem" =>
          \A L \in 1..MaxLimit :
              (\A i \in DOMAIN chain.limits : chain.limits[i] = L) =>
                  Len(chain.pages)
                    <= atLeastOne(ceilDiv(Cardinality(Matching(store, withSlash(provider.activePath))), L))

C2_Witness ==
    /\ provider.variant = "Filesystem"
    /\ chain.done
    /\ chain.limits = <<2, 2>>
    /\ Cardinality(Matching(store, withSlash(provider.activePath))) = 3

\* C3: every page listFiles returns, from a chain of calls or for any
\* response of the backend's client, has hasMore = (nextContinuationToken
\* is not null).
C3_HasMoreIffToken ==
    /\ \A i \in DOMAIN chain.pages :
          chain.pages[i].hasMore = (chain.pages[i].nextContinuationToken # NULL)
    /\ resp.page.hasMore = (resp.page.nextContinuationToken # NULL)

\* the pages of the other three variants, and of S3 over a bucket listed
\* by a conforming ListObjectsV2, do agree
C3_ChainPagesAgree ==
    \A i \in DOMAIN chain.pages :
        chain.pages[i].hasMore = (chain.pages[i].nextContinuationToken # NULL)

\* the names of the sub-directories directly in the directory dir ("/" at its end)
SubDirectories(st, dir) ==
    { SubSeq(st[i].key, Len(dir) + 1, indexOf(st[i].key, "/", Len(dir) + 1) - 1) :
        i \in { j \in DOMAIN st :
                  /\ startsWith(st[j].key, dir)
                  /\ indexOf(st[j].key, "/", Len(dir) + 1) > 0 } }

\* C14: on every variant the entries that listFiles(path) returns as files
\* are .json files that lie directly in path, and a listing read to its end
\* has an entry of type 'directory' for each sub-directory directly in path.
C14_DirectoriesListed ==
    /\ \A a \in Places(chain) :
          entryAt(chain, a).type # "directory" =>
              entryAt(chain, a).key \in Matching(store, withSlash(provider.activePath))
    /\ chain.done =>
          \A d \in SubDirectories(store, withSlash(provider.activePath)) :
              \E a \in Places(chain) :
                  entryAt(chain, a).type = "directory" /\ entryAt(chain, a).name = d

----------------------------------------------------------------------------
(* The upload filename validator: /^[\w\-. ]+\.json$/i                     *)

\* a character of the class [\w\-. ]
inClass(c) ==
    c \in Range(Lower) \cup Range(Upper) \cup Range(Digits) \cup {"_", "-", ".", " "}

\* the comparison without the i flag
toLower_sensitive(c) == c

\* the letter c in lower case, as the i flag compares
toLower(c) ==
    IF c \in Range(Upper) THEN Lower[CHOOSE i \in DOMAIN Upper : Upper[i] = c] ELSE c

\* [\w\-. ]+ matches the first n characters of s
classRun(s, n) == n >= 1 /\ \A i \in 1..n : inClass(s[i])

\* \.json$ with the i flag matches s from position i to its end
suffixAt(s, i) ==
    /\ Len(s) - i + 1 = Len(sDotJson)
    /\ \A j \in DOMAIN sDotJson : toLower(s[i + j - 1]) = sDotJson[j]

\* the regular expression tested on the whole of s: the class run ends
\* where the suffix begins
validFilename(s) == \E n \in 1..Len(s) : classRun(s, n) /\ suffixAt(s, n + 1)

----------------------------------------------------------------------------
(* A caller of one provider instance makes up to MaxCalls calls, one after *)
(* the other, on a directory that holds a.json; the backend answers every  *)
(* call.  Each call is recorded with its arguments, its outcome and the    *)
(* store it found.                                                         *)

noCall ==
    [op |-> "", key |-> sEmpty, dest |-> sEmpty, filename |-> sEmpty, content |-> jNull,
     limit |-> 0, token |-> NULL, ok |-> FALSE, err |-> noError, val |-> jNull,
     saved |-> sEmpty, page |-> emptyPage, pre |-> << >>]

\* the key of name relative to the storage location
relativeKey(p, name) == stripLeadingSlash(p.prefix \o sSlash \o sActive \o sSlash \o name)

relativeArchived(p, name) == stripLeadingSlash(p.prefix \o sSlash \o sArchived \o sSlash \o name)

\* the keys of the pages' entries in the calls l
listedKeys(l) ==
    UNION { { l[i].page.files[j].key : j \in DOMAIN l[i].page.files } : i \in DOMAIN l }

CallProviders ==
    { createStorageProvider(sS3 \o <<"b">>, sEmpty),
      createStorageProvider(sGs \o <<"b">>, <<"p">>),
      createStorageProvider(sAzure \o <<"c", "/", "k">>, sEmpty),
      createStorageProvider(<<"/", "d">>, sEmpty),
      createStorageProvider(<<"/">>, <<"p">>) }

\* the keys a caller passes: the two forms of a.json's key, the keys saveFile
\* returned, the keys listFiles returned and the keys it copied to
CallerKeys(p, l) ==
    {saveKey(p, nameA), relativeKey(p, nameA)}
        \cup { l[i].saved : i \in { j \in DOMAIN l : l[j].op = "save" /\ l[j].ok } }
        \cup { l[i].dest : i \in { j \in DOMAIN l : l[j].op = "copy" } }
        \cup listedKeys(l)

\* the destinations of a copy, in the same two forms
DestKeys(p) == {p.archivedPath \o sSlash \o nameA, relativeArchived(p, nameA)}

\* the tokens a caller passes: none, or one a page carried
CallerTokens(l) ==
    {NULL} \cup { l[i].page.nextContinuationToken : i \in { j \in DOMAIN l : l[j].op = "list" } }

SaveNames == {nameA, nameUpper}
SaveDocs == {docOne, docTwo}

InitProvider ==
    /\ provider \in CallProviders
    /\ store = <<[key |-> saveKey(provider, nameA), body |-> stringify(docOne, 2), mtime |-> 0]>>
    /\ now = 0
    /\ last = << >>
    /\ chain = newChain
    /\ resp = noResp
    /\ reqs = << >>
    /\ probe = noProbe

\* the call c ended with outcome r
Called(c, r) ==
    /\ store' = r.store
    /\ last' = <<[c EXCEPT !.ok = r.ok, !.err = r.err, !.pre = store]>> \o last
    /\ UNCHANGED <<provider, now, chain, resp, reqs, probe>>

Got(c, r) == Called([c EXCEPT !.val = r.val], r)

Saved(c, r) == Called([c EXCEPT !.saved = IF r.ok THEN r.val.key ELSE sEmpty], r)

Listed(c, r) == Called([c EXCEPT !.page = IF r.ok THEN r.val ELSE emptyPage], r)

CallSave ==
    /\ Len(last) < MaxCalls
    /\ \E filename \in SaveNames, content \in SaveDocs, pos \in positions(provider, store) :
          Saved([noCall EXCEPT !.op = "save", !.filename = filename, !.content = content],
                saveFile(provider, store, filename, content, TRUE, now, pos))

CallGet ==
    /\ Len(last) < MaxCalls
    /\ \E key \in CallerKeys(provider, last) :
          Got([noCall EXCEPT !.op = "get", !.key = key], getFile(provider, store, key, TRUE))

CallCopy ==
    /\ Len(last) < MaxCalls
    /\ \E sourceKey \in CallerKeys(provider, last), destKey \in DestKeys(provider),
          pos \in positions(provider, store) :
          Called([noCall EXCEPT !.op = "copy", !.key = sourceKey, !.dest = destKey],
                 copyFile(provider, store, sourceKey, destKey, TRUE, now, pos))

CallDelete ==
    /\ Len(last) < MaxCalls
    /\ \E key \in CallerKeys(provider, last) :
          Called([noCall EXCEPT !.op = "delete", !.key = key],
                 deleteFile(provider, store, key, TRUE))

CallList ==
    /\ Len(last) < MaxCalls
    /\ \E limit \in 1..MaxLimit, token \in CallerTokens(last) :
          Listed([noCall EXCEPT !.op = "list", !.limit = limit, !.token = token],
                 listFiles(provider, store, provider.activePath, limit, token))

NextProvider == CallSave \/ CallGet \/ CallCopy \/ CallDelete \/ CallList

SpecProvider == InitProvider /\ [][NextProvider]_vars

----------------------------------------------------------------------------
(* Properties of the provider calls.  last[1] is the call just made,       *)
(* last[2] the call before it.                                             *)

\* the entries of a page that describe files
fileEntries(page) == { page.files[j] : j \in { n \in DOMAIN page.files : page.files[n].type # "directory" } }

\* the document stored in st under the store's own key k
documentAt(st, k) == parse(bodyOf(st, k)).v

\* C4: getFile of the key that the saveFile just before returned gives a
\* document equal to the one saved, on every provider variant.
C4_RoundTrip ==
    Len(last) >= 2 /\ last[2].op = "save" /\ last[2].ok
      /\ last[1].op = "get" /\ last[1].key = last[2].saved
    => last[1].ok /\ last[1].val = last[2].content

\* C5: a key of a file entry that listFiles just returned is accepted by
\* getFile, copyFile (as source) and deleteFile, and each acts on the file the
\* entry describes: getFile returns its document, copyFile copies its text,
\* deleteFile removes it.
C5_KeysValid ==
    Len(last) >= 2 /\ last[2].op = "list" /\ last[1].op \in {"get", "copy", "delete"}
      /\ last[1].key \in { e.key : e \in fileEntries(last[2].page) }
    => /\ last[1].ok
       /\ last[1].op = "get" => last[1].val = documentAt(last[1].pre, last[1].key)
       /\ last[1].op = "copy" =>
             \E i \in DOMAIN store :
                 /\ store[i].key # last[1].key
                 /\ store[i].body = bodyOf(last[1].pre, last[1].key)
       /\ last[1].op = "delete" => ~exists(store, last[1].key)

\* C6: after saveFile of a filename the upload validator accepts, a listing
\* of activePath read to its end has an entry whose name is the filename
\* and whose size is not negative.
C6_SavedIsListed ==
    Len(last) >= 2 /\ last[2].op = "save" /\ last[2].ok /\ validFilename(last[2].filename)
      /\ last[1].op = "list" /\ last[1].token = NULL /\ ~last[1].page.hasMore
    => \E j \in DOMAIN last[1].page.files :
          /\ last[1].page.files[j].name = last[2].filename
          /\ last[1].page.files[j].size >= 0

\* C7: after copyFile(A, B) and deleteFile(A) of an existing A with
\* document c and another key B of the same form (both absolute or both
\* relative), getFile(B) returns c and getFile(A) fails with the provider's
\* not-found error.
C7_CopyThenDelete ==
    Len(last) >= 3 /\ last[3].op = "copy" /\ last[3].ok /\ last[3].dest # last[3].key
      /\ isAbsolute(last[3].key) = isAbsolute(last[3].dest)
      /\ last[2].op = "delete" /\ last[2].ok /\ last[2].key = last[3].key
      /\ last[1].op = "get"
    => /\ last[1].key = last[3].dest =>
             /\ last[1].ok
             /\ last[1].val = documentAt(last[3].pre, resolvePath(provider, last[3].key))
       /\ last[1].key = last[3].key => ~last[1].ok /\ last[1].err \in NotFoundErrors

----------------------------------------------------------------------------
(* server.js: the upload and the archive requests.  An upload runs to its  *)
(* response in one step (its one await is saveFile); an archive awaits     *)
(* copyFile and then deleteFile, and other requests run in between.  A     *)
(* call the backend does not answer (up = FALSE) throws and changes        *)
(* nothing.                                                                *)

MAX_FILE_SIZE == 10485760       \* 10 * 1024 * 1024
BODY_LIMIT == 11534336          \* express.json({ limit: '11mb' })

sFilename == <<"f", "i", "l", "e", "n", "a", "m", "e">>
sContent == <<"c", "o", "n", "t", "e", "n", "t">>

noReq ==
    [kind |-> "", pc |-> "done", filename |-> jNull, content |-> jNull, key |-> sEmpty,
     archivedKey |-> sEmpty, status |-> 0, message |-> "", err |-> noError,
     saveInvoked |-> FALSE, copied |-> FALSE, deleted |-> FALSE, clean |-> FALSE,
     srcAfter |-> FALSE, dstAfter |-> FALSE, srcBefore |-> FALSE, srcKept |-> FALSE]

\* res.status(status).json(...) with what the handler did to the store
respond(status, message, st, saveInvoked) ==
    [status |-> status, message |-> message, store |-> st, saveInvoked |-> saveInvoked]

\* v[key], undefined read as null
memberOrNull(v, key) == IF hasMember(v, key) THEN member(v, key) ELSE jNull

\* content.Results && Array.isArray(content.Results)
hasResultsArray(content) ==
    hasMember(content, sResults) /\ member(content, sResults).t = "arr"

\* the response once saveFile has returned or thrown
uploadSaved(r) ==
    IF r.ok THEN respond(200, "File uploaded successfully", r.store, TRUE)
    ELSE respond(500, "Failed to upload file", r.store, TRUE)

\* the try block of the upload handler, from the destructured body on
uploadChecked(p, st, filename, content, up, t, pos) ==
    IF ~truthy(filename) \/ ~truthy(content)
    THEN respond(400, "Filename and content are required", st, FALSE)
    ELSE IF filename.t # "str" \/ filename.n # 0 \/ ~validFilename(filename.s)
    THEN respond(400, "Invalid filename", st, FALSE)
    ELSE IF ByteLength(stringify(content, 0)) > MAX_FILE_SIZE
    THEN respond(400, "File content exceeds 10 MiB limit", st, FALSE)
    ELSE IF ~hasResultsArray(content)
    THEN respond(400, "Invalid Trivy report format", st, FALSE)
    ELSE uploadSaved(saveFile(p, st, filename.s, content, up, t, pos))

\* app.post('/api/files/upload') with req.body parsed
uploadHandler(p, st, body, up, t, pos) ==
    uploadChecked(p, st, memberOrNull(body, sFilename), memberOrNull(body, sContent),
                  up, t, pos)

\* express.json({limit}) in front of the routes: a body over the limit is
\* an error passed to the error handling middleware, which answers 500
jsonBody(p, st, text, up, t, pos) ==
    IF ByteLength(text) > BODY_LIMIT
    THEN respond(500, "Internal server error", st, FALSE)
    ELSE uploadHandler(p, st, parse(text).v, up, t, pos)

\* the body a client posts to /api/files/upload
uploadBody(filename, content) ==
    jObj(<<[k |-> sFilename, v |-> filename], [k |-> sContent, v |-> content]>>)

\* a report whose compact serialization has n bytes: {"Results":["..."]}
docOfSize(n) ==
    jObj(<<[k |-> sResults, v |-> jArr(<<jStr(sEmpty, n - 16)>>)]>>)

docNotArray == jObj(<<[k |-> sResults, v |-> jStr(<<"y">>, 0)]>>)

nameEvil == <<".", ".", "/", "e">> \o sDotJson

UploadNames == {jNull, jStr(nameA, 0), jStr(nameUpper, 0), jStr(nameEvil, 0)}

UploadContents ==
    {jNull, docEmpty, docOne, docNotArray,
     docOfSize(MAX_FILE_SIZE), docOfSize(MAX_FILE_SIZE + 1), docOfSize(BODY_LIMIT)}

\* the uploads clients post: a good name with every content, every name
\* with a good content
UploadInputs == ({jStr(nameA, 0)} \X UploadContents) \cup (UploadNames \X {docOne})

\* new Date().toISOString() at clock tick t
toISOString(t) == <<"T">> \o numToStr(t) \o <<"Z">>

\* the requests in flight whose archive is between its copy and its delete
\* see the store change under them
disturbed(rs, st1, st2) ==
    IF st1 = st2 THEN rs
    ELSE [i \in DOMAIN rs |-> IF rs[i].pc = "delete" THEN [rs[i] EXCEPT !.clean = FALSE] ELSE rs[i]]

ServerProviders ==
    { createStorageProvider(sS3 \o <<"b">>, sEmpty),
      createStorageProvider(sGs \o <<"b">>, <<"p">>),
      createStorageProvider(<<"/", "d">>, sEmpty) }

Init ==
    /\ provider \in ServerProviders
    /\ store = <<[key |-> saveKey(provider, nameA), body |-> stringify(docOne, 2), mtime |-> 0]>>
    /\ now = 0
    /\ reqs = << >>
    /\ last = << >>
    /\ chain = newChain
    /\ resp = noResp
    /\ probe = noProbe

\* an upload request answered with r
Uploaded(filename, content, r) ==
    /\ store' = r.store
    /\ reqs' = Append(disturbed(reqs, store, r.store),
                      [noReq EXCEPT !.kind = "upload", !.filename = filename,
                                    !.content = content, !.status = r.status,
                                    !.message = r.message, !.saveInvoked = r.saveInvoked])
    /\ UNCHANGED <<provider, now, chain, resp, last, probe>>

\* POST /api/files/upload
Upload ==
    /\ Len(reqs) < MaxRequests
    /\ \E input \in UploadInputs, up \in BOOLEAN, pos \in positions(provider, store) :
          Uploaded(input[1], input[2],
                   jsonBody(provider, store, stringify(uploadBody(input[1], input[2]), 0),
                            up, now, pos))

\* the key the archive handler acts on
archiveKey(p, key) == IF startsWith(key, p.activePath) THEN key ELSE pathJoin(p.activePath, key)

\* `${storageProvider.archivedPath}/${filename}.${isoDate}`
archivedKeyOf(p, key, isoDate) ==
    p.archivedPath \o sSlash \o basename(key) \o sDot \o isoDate

\* a handler that goes on to deleteFile whatever copyFile did
archiveCopied_always(key, archivedKey, r) ==
    [noReq EXCEPT !.kind = "archive", !.pc = "delete", !.key = key,
                  !.archivedKey = archivedKey, !.copied = r.ok, !.clean = TRUE]

\* the request after its copyFile returned or threw
archiveCopied(key, archivedKey, r) ==
    IF r.ok
    THEN [noReq EXCEPT !.kind = "archive", !.pc = "delete", !.key = key,
                       !.archivedKey = archivedKey, !.copied = TRUE, !.clean = TRUE]
    ELSE [noReq EXCEPT !.kind = "archive", !.key = key, !.archivedKey = archivedKey,
                       !.status = 500, !.message = "Failed to archive file", !.err = r.err]

\* the request q with what its copyFile found at the place src and left
\* there: whether the source was there, and whether it is as it was
sourceSeen(q, st1, st2, src) ==
    [q EXCEPT !.srcBefore = exists(st1, src),
              !.srcKept = \A i \in DOMAIN st1 :
                              st1[i].key = src => \E j \in DOMAIN st2 : st2[j] = st1[i]]

ArchiveStarted(key, archivedKey, r) ==
    /\ store' = r.store
    /\ reqs' = Append(disturbed(reqs, store, r.store),
                      sourceSeen(archiveCopied(key, archivedKey, r), store, r.store,
                                 resolvePath(provider, key)))
    /\ UNCHANGED <<provider, now, chain, resp, last, probe>>

ArchiveFrom(key, archivedKey, up, pos) ==
    ArchiveStarted(key, archivedKey,
                   copyFile(provider, store, key, archivedKey, up, now, pos))

ArchiveKeyed(key, up, pos) ==
    ArchiveFrom(key, archivedKeyOf(provider, key, toISOString(now)), up, pos)

\* the keys clients post to /api/files/archive: none, a bare name, a listed key
ArchiveKeys(p) == {sEmpty, nameA, saveKey(p, nameA)}

\* POST /api/files/archive up to the end of its copyFile
ArchiveCopy ==
    /\ Len(reqs) < MaxRequests
    /\ \E key \in ArchiveKeys(provider), up \in BOOLEAN, pos \in positions(provider, store) :
          IF key = sEmpty
          THEN /\ reqs' = Append(reqs, [noReq EXCEPT !.kind = "archive", !.status = 400,
                                                     !.message = "File key is required"])
               /\ UNCHANGED <<provider, store, now, chain, resp, last, probe>>
          ELSE ArchiveKeyed(archiveKey(provider, key), up, pos)

\* the request q after its deleteFile returned or threw, in the store st it left
archiveDeleted(p, q, r) ==
    IF r.ok
    THEN [q EXCEPT !.pc = "done", !.deleted = TRUE, !.status = 200,
                   !.message = "File archived successfully"]
    ELSE [q EXCEPT !.pc = "done", !.status = 500, !.message = "Failed to archive file",
                   !.err = r.err,
                   !.srcAfter = exists(r.store, resolvePath(p, q.key)),
                   !.dstAfter = exists(r.store, resolvePath(p, q.archivedKey))]

ArchiveEnded(i, r) ==
    /\ store' = r.store
    /\ reqs' = [disturbed(reqs, store, r.store) EXCEPT ![i] = archiveDeleted(provider, reqs[i], r)]
    /\ UNCHANGED <<provider, now, chain, resp, last, probe>>

\* the rest of an archive request: deleteFile and the response
ArchiveDelete ==
    \E i \in DOMAIN reqs :
        /\ reqs[i].pc = "delete"
        /\ \E up \in BOOLEAN :
              ArchiveEnded(i, deleteFile(provider, store, reqs[i].key, up))

\* the clock moves on before the next request arrives (only an arriving
\* request reads it)
Tick ==
    /\ now < MaxClock
    /\ Len(reqs) < MaxRequests
    /\ now' = now + 1
    /\ UNCHANGED <<provider, store, chain, resp, last, reqs, probe>>

Next == Upload \/ ArchiveCopy \/ ArchiveDelete \/ Tick

Spec == Init /\ [][Next]_vars

----------------------------------------------------------------------------
(* Properties of the requests.                                             *)

\* archive requests whose copyFile succeeded and whose deleteFile then failed
HalfArchived ==
    { i \in DOMAIN reqs :
        reqs[i].kind = "archive" /\ reqs[i].pc = "done" /\ reqs[i].copied /\ ~reqs[i].deleted }

\* C8 as amended: an archive request whose copyFile succeeded and whose
\* deleteFile then failed answers 500 and never the success message, and
\* when no other request changed the store between its copy and its failed
\* delete, the store then holds the original under the source key and the
\* archived copy.
C8_PartialFailure ==
    \A i \in HalfArchived :
        /\ reqs[i].status = 500
        /\ reqs[i].message # "File archived successfully"
        /\ reqs[i].clean => reqs[i].srcAfter /\ reqs[i].dstAfter

C8_Witness ==
    \E i \in HalfArchived :
        reqs[i].clean /\ reqs[i].srcAfter /\ reqs[i].dstAfter /\ reqs[i].status = 500

\* C8 as stated: whenever copyFile succeeded and deleteFile then failed,
\* the store holds both the original and the archived copy, and the request
\* answers 500.
C8_BothCopiesPresent ==
    \A i \in HalfArchived :
        reqs[i].status = 500 /\ reqs[i].srcAfter /\ reqs[i].dstAfter

\* an upload that one of the three checks must turn down
failsACheck(q) ==
    \/ q.filename.t # "str"
    \/ ~validFilename(q.filename.s)
    \/ ByteLength(stringify(q.content, 0)) > MAX_FILE_SIZE
    \/ ~hasResultsArray(q.content)

\* C9: an upload whose filename fails the validator, whose serialized
\* content is larger than 10 MiB or whose content has no Results array is
\* answered 400 without saveFile being invoked; saveFile is invoked only
\* when all three checks pass.
C9_ValidationWritesNothing ==
    \A i \in DOMAIN reqs :
        reqs[i].kind = "upload" =>
            /\ failsACheck(reqs[i]) => reqs[i].status = 400 /\ ~reqs[i].saveInvoked
            /\ reqs[i].saveInvoked => ~failsACheck(reqs[i])

\* the run had two archive requests of one key and nothing else, both are
\* answered, and the backend answered every call
TwoArchives ==
    /\ Len(reqs) = 2
    /\ \A i \in DOMAIN reqs :
          /\ reqs[i].kind = "archive"
          /\ reqs[i].pc = "done"
          /\ reqs[i].status # 400
          /\ reqs[i].err # errUnavailable
    /\ reqs[1].key = reqs[2].key

\* C17: once two archive requests of the same existing active key have
\* both finished, with their copy and delete steps interleaved in any
\* order and no outage, the source key no longer exists, an archived copy
\* with the original content exists under archivedPath, and at most one of
\* the two requests reports an error.
C17_ConcurrentArchives ==
    TwoArchives =>
        /\ ~exists(store, resolvePath(provider, reqs[1].key))
        /\ \E i \in DOMAIN store :
              /\ startsWith(store[i].key, withSlash(provider.archivedPath))
              /\ store[i].body = stringify(docOne, 2)
        /\ \E i \in DOMAIN reqs : reqs[i].status = 200

\* both copies succeeded and the second delete failed with not-found
C17_Witness ==
    /\ TwoArchives
    /\ reqs[1].copied /\ reqs[2].copied
    /\ \E i \in DOMAIN reqs :
          reqs[i].status = 500 /\ ~reqs[i].deleted /\ reqs[i].err \in NotFoundErrors
    /\ \E i \in DOMAIN reqs : reqs[i].status = 200 /\ reqs[i].deleted

\* archive requests whose copyFile failed
CopyFailed ==
    { i \in DOMAIN reqs :
        reqs[i].kind = "archive" /\ reqs[i].status # 400 /\ ~reqs[i].copied }

\* C18 as amended: deleteFile of an archive request is invoked only after
\* the request's copyFile succeeded; when copyFile fails, deleteFile is
\* never invoked, the request answers 500, and a source file that was
\* there when copyFile was called is still there with its content.
C18_CopyBeforeDelete ==
    /\ \A i \in DOMAIN reqs :
          reqs[i].kind = "archive" /\ (reqs[i].pc = "delete" \/ reqs[i].deleted) => reqs[i].copied
    /\ \A i \in CopyFailed :
          /\ reqs[i].pc = "done"
          /\ ~reqs[i].deleted
          /\ reqs[i].status = 500
          /\ reqs[i].message = "Failed to archive file"
          /\ reqs[i].srcKept

C18_Witness ==
    \E i \in CopyFailed :
        /\ reqs[i].err = errUnavailable
        /\ reqs[i].srcBefore /\ reqs[i].srcKept
        /\ reqs[i].status = 500
        /\ exists(store, resolvePath(provider, reqs[i].key))

\* C18 as stated: when copyFile fails, deleteFile is never invoked, the
\* source file is still present with its content unchanged, and the
\* request reports an error.
C18_SourceStillPresent ==
    \A i \in CopyFailed :
        /\ ~reqs[i].deleted
        /\ reqs[i].status = 500
        /\ reqs[i].srcBefore /\ reqs[i].srcKept

\* C23: once an archive request of the active file f and an upload that
\* saves content d under the name f have both succeeded, in whatever order
\* their steps were taken, d is stored at the active key of f or in an
\* archived copy: the delete removes only what the copy had copied.
C23_UploadNotLost ==
    \A i, j \in DOMAIN reqs :
        /\ reqs[i].kind = "archive" /\ reqs[i].pc = "done" /\ reqs[i].status = 200
        /\ reqs[j].kind = "upload" /\ reqs[j].status = 200
        /\ resolvePath(provider, reqs[i].key) = saveKey(provider, reqs[j].filename.s)
        => \E k \in DOMAIN store :
              /\ store[k].body = stringify(reqs[j].content, 2)
              /\ \/ store[k].key = saveKey(provider, reqs[j].filename.s)
                 \/ startsWith(store[k].key, withSlash(provider.archivedPath))

----------------------------------------------------------------------------
(* The filename validator on its own: names made of a short stem and an    *)
(* ending, and the names of the examples.                                  *)

StemChars == {"a", "Z", "0", "_", "-", ".", " ", "/"}

Endings ==
    { sDotJson, <<".", "J", "S", "O", "N">>, <<".", "J", "s", "o", "n">>,
      <<".", "t", "x", "t">>, sDotJson \o <<".", "e", "x", "e">>, sEmpty,
      <<".", "j", "s", "o">>, <<"j", "s", "o", "n">>, <<"_", "j", "s", "o", "n">> }

sReport == <<"r", "e", "p", "o", "r", "t">>
nameReport1 == sReport \o <<"-", "1">> \o sDotJson
nameMyReport == <<"M", "y", " ", "R", "e", "p", "o", "r", "t", ".", "J", "S", "O", "N">>
nameDotsEvil == <<".", ".", "/", "e", "v", "i", "l">> \o sDotJson
nameReportTxt == sReport \o <<".", "t", "x", "t">>
nameReportExe == sReport \o sDotJson \o <<".", "e", "x", "e">>

ProbedNames ==
    { stem \o ending :
        stem \in UNION { [1..n -> StemChars] : n \in 0..MaxStem }, ending \in Endings }
      \cup {nameReport1, nameMyReport, nameDotsEvil, nameReportTxt, nameReportExe}

InitValidate ==
    /\ probe \in { [noProbe EXCEPT !.input = name] : name \in ProbedNames }
    /\ provider = createStorageProvider(<<"/", "d">>, sEmpty)
    /\ store = << >>
    /\ now = 0
    /\ chain = newChain
    /\ resp = noResp
    /\ last = << >>
    /\ reqs = << >>

\* the validator tests the name
Validate ==
    /\ ~probe.applied
    /\ probe' = [probe EXCEPT !.applied = TRUE, !.output = validFilename(probe.input)]
    /\ UNCHANGED <<provider, store, now, chain, resp, last, reqs>>

NextValidate == Validate

SpecValidate == InitValidate /\ [][NextValidate]_vars

\* the characters a name may be made of
NameChars == Range(Lower) \cup Range(Upper) \cup Range(Digits) \cup {"_", "-", ".", " "}

\* s ends in ".json" in any mix of cases
endsInJson(s) ==
    /\ Len(s) >= 5
    /\ s[Len(s) - 4] = "."
    /\ s[Len(s) - 3] \in {"j", "J"}
    /\ s[Len(s) - 2] \in {"s", "S"}
    /\ s[Len(s) - 1] \in {"o", "O"}
    /\ s[Len(s)] \in {"n", "N"}

\* C10: the validator accepts exactly the names that are one or more
\* letters, digits, underscores, hyphens, dots and spaces followed by
\* ".json" in any case at the end; it accepts report-1.json and
\* My Report.JSON, rejects ../evil.json, report.txt and report.json.exe,
\* and rejects every name with a "/" in it.
C10_Validator ==
    probe.applied =>
    /\ probe.output =
          (/\ endsInJson(probe.input)
           /\ Len(probe.input) >= 6
           /\ \A i \in 1..(Len(probe.input) - 5) : probe.input[i] \in NameChars)
    /\ probe.input \in {nameReport1, nameMyReport} => probe.output
    /\ probe.input \in {nameDotsEvil, nameReportTxt, nameReportExe} => ~probe.output
    /\ "/" \in Range(probe.input) => ~probe.output

C10_Witness == probe.applied /\ probe.input = nameMyReport /\ probe.output

----------------------------------------------------------------------------
(* server.js: the two read requests, GET /api/files and                    *)
(* GET /api/files/:key.  Neither changes the store, so each is taken on    *)
(* its own, over a store that holds a report, a file that is no JSON and   *)
(* a report in a sub-directory.                                            *)

LIST_LIMIT == 100       \* Math.min(parseInt(req.query.limit) || 100, 100)

\* n || 100, then Math.min(.., 100), for the number parseInt gave
limitFrom(n) ==
    IF n = NaN \/ n = 0 THEN LIST_LIMIT
    ELSE IF n < LIST_LIMIT THEN n
    ELSE LIST_LIMIT

\* const limit = Math.min(parseInt(req.query.limit) || 100, 100)
limitOf(limit) ==
    IF falsy(limit) THEN LIST_LIMIT
    ELSE limitFrom(parseInt(limit))

\* a filter that keeps the ".." segments
keepSegment_dots(p) == p # sEmpty

\* p => p && p !== '..'
keepSegment(p) == p # sEmpty /\ p # sDotDot

\* subPath.split('/').filter(p => p && p !== '..').join('/')
sanitize(subPath) == join(SelectSeq(split(subPath, "/"), keepSegment), sSlash)

\* fullPath: activePath, or `${activePath}/${sanitizedPath}` for a subPath given
fullPathOf(p, subPath) ==
    IF falsy(subPath) THEN p.activePath ELSE p.activePath \o sSlash \o sanitize(subPath)

noRead ==
    [kind |-> "", path |-> NULL, limit |-> NULL, token |-> NULL, key |-> sEmpty,
     up |-> TRUE, passed |-> sEmpty, passedLimit |-> 0, status |-> 0, message |-> "",
     page |-> emptyPage, currentPath |-> sEmpty, data |-> jNull, err |-> noError]

\* res.json({...result, currentPath}) or the catch block's 500
listAnswered(q, r) ==
    IF r.ok THEN [q EXCEPT !.status = 200, !.page = r.val]
    ELSE [q EXCEPT !.status = 500, !.message = "Failed to list files", !.err = r.err]

\* the list handler once fullPath and limit are computed
listCalled(p, st, q, fullPath, limit) ==
    listAnswered([q EXCEPT !.passed = fullPath, !.passedLimit = limit],
                 listFiles(p, st, fullPath, limit, orNull(q.token)))

\* app.get('/api/files') with req.query = {path, limit, continuationToken}
listHandler(p, st, path, limit, token) ==
    listCalled(p, st,
               [noRead EXCEPT !.kind = "list", !.path = path, !.limit = limit, !.token = token,
                              !.currentPath = IF falsy(path) THEN sEmpty ELSE path],
               fullPathOf(p, path), limitOf(limit))

\* `${storageProvider.prefix}/active/`
fetchRoot(p) == p.prefix \o sSlash \o sActive \o sSlash

\* the key the fetch handler passes to getFile
fetchKey(p, key) == IF startsWith(key, fetchRoot(p)) THEN key ELSE fetchRoot(p) \o key

\* error.name === 'NoSuchKey' || error.code === 'ENOENT' || error.code === 404
isNotFound(error) == error.name = "NoSuchKey" \/ error.code = "ENOENT" \/ error.code = "404"

\* res.json(data), or the catch block's 404 or 500
fetchAnswered(q, r) ==
    IF r.ok THEN [q EXCEPT !.status = 200, !.data = r.val]
    ELSE IF isNotFound(r.err)
    THEN [q EXCEPT !.status = 404, !.message = "File not found", !.err = r.err]
    ELSE [q EXCEPT !.status = 500, !.message = "Failed to fetch file", !.err = r.err]

fetchCalled(p, st, q, key, up) ==
    fetchAnswered([q EXCEPT !.passed = key], getFile(p, st, key, up))

\* app.get('/api/files/:key') with req.params.key
fetchHandler(p, st, key, up) ==
    fetchCalled(p, st, [noRead EXCEPT !.kind = "fetch", !.key = key, !.up = up],
                fetchKey(p, key), up)

MaxSegments == 3    \* segments of a sub-path a client asks to list

nameBad == <<"b", "a", "d">> \o sDotJson
nameSub == <<"b", "/", "e">> \o sDotJson
nameGone == <<"g">> \o sDotJson

\* text that JSON.parse turns down
textBroken == <<tokP("{")>>

ReadProviders ==
    { createStorageProvider(l, x) :
        l \in { sS3 \o <<"b">>, sGs \o <<"b">>, sAzure \o <<"c", "/", "k">>, <<"/", "d">> },
        x \in { sEmpty, <<"p">> } }

\* the stores the read requests find: nothing, or the three files
ReadStores(p) ==
    { << >>,
      <<[key |-> saveKey(p, nameA), body |-> stringify(docOne, 2), mtime |-> 1],
        [key |-> saveKey(p, nameBad), body |-> textBroken, mtime |-> 1],
        [key |-> saveKey(p, nameSub), body |-> stringify(docTwo, 2), mtime |-> 1]>> }

Segments == { sEmpty, sDotDot, sDot, <<"a">>, <<"b">>, <<"e", "t", "c">> }

\* the paths clients ask for: up to MaxSegments segments with "/" between
SubPaths ==
    { join(s, sSlash) : s \in UNION { [1..n -> Segments] : n \in 1..MaxSegments } }

QueryLimits == { NULL, <<"2">>, <<"0">>, <<"x">>, <<"5", "0", "0">>, <<"7", "x">> }

QueryTokens == { NULL, sEmpty, <<"1">> }

\* the queries of GET /api/files: every path with the default paging, and
\* every paging of the root and of a sub-directory
ListQueries ==
    ((SubPaths \cup {NULL}) \X {NULL} \X {NULL})
        \cup ({NULL, <<"b">>} \X QueryLimits \X QueryTokens)

\* the keys of GET /api/files/:key: bare names and saved keys, of a report,
\* of the broken file and of no file
FetchKeys(p) ==
    { nameA, nameBad, nameGone, nameSub, saveKey(p, nameA), saveKey(p, nameBad),
      saveKey(p, nameGone), relativeKey(p, nameA), relativeKey(p, nameGone) }

InitRead ==
    /\ provider \in ReadProviders
    /\ store \in ReadStores(provider)
    /\ reqs = << >>
    /\ now = 1
    /\ chain = newChain
    /\ resp = noResp
    /\ last = << >>
    /\ probe = noProbe

\* GET /api/files
ListRequest ==
    /\ reqs = << >>
    /\ \E query \in ListQueries :
          reqs' = <<listHandler(provider, store, query[1], query[2], query[3])>>
    /\ UNCHANGED <<provider, store, now, chain, resp, last, probe>>

\* GET /api/files/:key
FetchRequest ==
    /\ reqs = << >>
    /\ \E key \in FetchKeys(provider), up \in BOOLEAN :
          reqs' = <<fetchHandler(provider, store, key, up)>>
    /\ UNCHANGED <<provider, store, now, chain, resp, last, probe>>

NextRead == ListRequest \/ FetchRequest

SpecRead == InitRead /\ [][NextRead]_vars

----------------------------------------------------------------------------
(* Properties of the read requests.                                        *)

\* the pieces of s between its "/" characters, read character by character
RECURSIVE piecesFrom(_, _, _)
piecesFrom(s, i, piece) ==
    IF i > Len(s) THEN <<piece>>
    ELSE IF s[i] = "/" THEN <<piece>> \o piecesFrom(s, i + 1, << >>)
    ELSE piecesFrom(s, i + 1, Append(piece, s[i]))

\* the pieces of a client's path that are neither empty nor ".."
keptPieces(path) ==
    SelectSeq(piecesFrom(path, 1, << >>), LAMBDA x : x # sEmpty /\ x # sDotDot)

sEtc == <<"e", "t", "c">>
pathDotsEtc == <<".", ".", "/", ".", ".", "/">> \o sEtc
pathADotsB == <<"a", "/", ".", ".", "/", "b">>

\* the location a listing of fullPath reads, with "/" at its end
listedLocation(p, fullPath) ==
    withSlash(IF p.variant = "Filesystem" THEN pathResolve(fullPath) ELSE fullPath)

\* C11: the path the list handler passes to listFiles is activePath when no
\* path is given, and otherwise activePath, "/" and the segments of the
\* client's path in their order without the empty and the ".." segments;
\* "../../etc" gives "etc" and "a/../b" gives "a/b"; no segment passed on is
\* "..", and the location listed is activePath or lies below it.
C11_Sanitized ==
    \A i \in DOMAIN reqs :
        reqs[i].kind = "list" =>
            /\ reqs[i].passed =
                  IF reqs[i].path \in {NULL, sEmpty} THEN provider.activePath
                  ELSE provider.activePath \o sSlash \o join(keptPieces(reqs[i].path), sSlash)
            /\ reqs[i].path = pathDotsEtc => reqs[i].passed = provider.activePath \o sSlash \o sEtc
            /\ reqs[i].path = pathADotsB =>
                  reqs[i].passed = provider.activePath \o <<"/", "a", "/", "b">>
            /\ startsWith(reqs[i].passed, provider.activePath)
            /\ sDotDot \notin Range(split(SubSeq(reqs[i].passed, Len(provider.activePath) + 1,
                                                 Len(reqs[i].passed)), "/"))
            /\ startsWith(listedLocation(provider, reqs[i].passed),
                          withSlash(provider.activePath))

C11_Witness ==
    \E i \in DOMAIN reqs :
        /\ reqs[i].kind = "list"
        /\ reqs[i].path = pathDotsEtc
        /\ reqs[i].passed = provider.activePath \o sSlash \o sEtc
        /\ reqs[i].status = 200

\* fetch requests that found the store with a.json in it and the backend up
fetchesOf(key) ==
    { i \in DOMAIN reqs :
        /\ reqs[i].kind = "fetch"
        /\ reqs[i].key = key
        /\ reqs[i].up
        /\ exists(store, saveKey(provider, nameA)) }

\* C12: the key the fetch handler passes to getFile is the key given when
\* that key starts with activePath, and activePath, "/" and the key given
\* otherwise, for every variant and prefix; so a fetch with the key that
\* listFiles and saveFile return for a.json and a fetch with the bare name
\* a.json both answer 200 with the stored report.
C12_FetchKey ==
    /\ \A i \in DOMAIN reqs :
          reqs[i].kind = "fetch" =>
              reqs[i].passed =
                  IF startsWith(reqs[i].key, provider.activePath) THEN reqs[i].key
                  ELSE provider.activePath \o sSlash \o reqs[i].key
    /\ \A i \in fetchesOf(nameA) \cup fetchesOf(saveKey(provider, nameA)) :
          reqs[i].status = 200 /\ reqs[i].data = docOne

\* the fetch requests whose key, as passed to getFile, names nothing in the
\* backend although the backend answers
fetchesOfNothing ==
    { i \in DOMAIN reqs :
        /\ reqs[i].kind = "fetch"
        /\ reqs[i].up
        /\ ~exists(store, getPath(provider, reqs[i].passed))
        /\ ~isDirectory(store, getPath(provider, reqs[i].passed)) }

\* C13: on every variant a fetch of a key that does not exist in the
\* backend is answered 404, and a fetch that fails in any other way (the
\* backend does not answer, the stored text is no JSON) is answered 500.
C13_NotFoundIs404 ==
    /\ \A i \in fetchesOfNothing : reqs[i].status = 404
    /\ \A i \in DOMAIN reqs :
          reqs[i].kind = "fetch" /\ i \notin fetchesOfNothing =>
              reqs[i].status = IF reqs[i].err = noError THEN 200 ELSE 500

----------------------------------------------------------------------------
(* One provider call on its own: a caller lists one path or copies one     *)
(* key, or saves up to MaxSaves files one after the other, over a store    *)
(* that holds nothing, one report, two reports, or a report and an         *)
(* archived copy.  The backend answers every call.                         *)

MaxSaves == 2       \* saveFile calls a caller makes one after the other

archivedKeyFor(p, name) == p.archivedPath \o sSlash \o name

\* a bucket can hold an object whose key is the directory's prefix itself
\* (a directory marker); a directory of the filesystem holds no such entry
MarkedStores(p) ==
    IF p.variant = "Filesystem" THEN {}
    ELSE { <<[key |-> withSlash(p.activePath), body |-> << >>, mtime |-> 0],
             [key |-> saveKey(p, nameA), body |-> stringify(docOne, 2), mtime |-> 0],
             [key |-> saveKey(p, nameNested), body |-> stringify(docTwo, 2), mtime |-> 0]>> }

FrameStores(p) ==
    { << >>,
      <<[key |-> saveKey(p, nameA), body |-> stringify(docOne, 2), mtime |-> 0]>>,
      <<[key |-> saveKey(p, nameA), body |-> stringify(docOne, 2), mtime |-> 0],
        [key |-> saveKey(p, nameB), body |-> stringify(docTwo, 2), mtime |-> 0]>>,
      <<[key |-> saveKey(p, nameA), body |-> stringify(docOne, 2), mtime |-> 0],
        [key |-> archivedKeyFor(p, nameA), body |-> stringify(docTwo, 2), mtime |-> 0]>>,
      <<[key |-> saveKey(p, nameA), body |-> stringify(docOne, 2), mtime |-> 0],
        [key |-> saveKey(p, nameText), body |-> stringify(docOne, 2), mtime |-> 0],
        [key |-> saveKey(p, nameNested), body |-> stringify(docTwo, 2), mtime |-> 0]>> }
      \cup MarkedStores(p)

\* the paths listed: the two roots, a directory below activePath and one beside it
FramePaths(p) ==
    { p.activePath, p.archivedPath, p.activePath \o <<"/", "n">>, p.activePath \o <<"x">> }

\* the tokens passed: the filesystem variant takes any text for its offset,
\* a bucket takes what it handed out
FrameTokens(p) ==
    IF p.variant = "Filesystem" THEN { NULL, <<"1">>, <<"7">>, <<"x">> }
    ELSE { NULL, saveKey(p, nameA) }

\* the keys copied from and to, and a key relative to the storage location
FrameKeys(p) ==
    { saveKey(p, nameA), saveKey(p, nameB), saveKey(p, nameGone),
      archivedKeyFor(p, nameA), relativeArchived(p, nameB) }

InitFrame ==
    /\ provider \in CallProviders
    /\ store \in FrameStores(provider)
    /\ last = << >>
    /\ now = 1
    /\ chain = newChain
    /\ resp = noResp
    /\ reqs = << >>
    /\ probe = noProbe

ListOnce ==
    /\ last = << >>
    /\ \E subPath \in FramePaths(provider), limit \in 1..MaxLimit,
          token \in FrameTokens(provider) :
          Listed([noCall EXCEPT !.op = "list", !.key = subPath, !.limit = limit,
                                !.token = token],
                 listFiles(provider, store, subPath, limit, token))

CopyOnce ==
    /\ last = << >>
    /\ \E sourceKey \in FrameKeys(provider), destKey \in FrameKeys(provider),
          pos \in positions(provider, store) :
          Called([noCall EXCEPT !.op = "copy", !.key = sourceKey, !.dest = destKey],
                 copyFile(provider, store, sourceKey, destKey, TRUE, now, pos))

SaveAgain ==
    /\ Len(last) < MaxSaves
    /\ \A i \in DOMAIN last : last[i].op = "save"
    /\ \E filename \in SaveNames, content \in SaveDocs, pos \in positions(provider, store) :
          Saved([noCall EXCEPT !.op = "save", !.filename = filename, !.content = content],
                saveFile(provider, store, filename, content, TRUE, now, pos))

NextFrame == ListOnce \/ CopyOnce \/ SaveAgain

SpecFrame == InitFrame /\ [][NextFrame]_vars

----------------------------------------------------------------------------
(* Properties of one provider call.  last[1] is the call just made, with   *)
(* the store it found in last[1].pre.                                      *)

\* the place in the backend that a path or key names
placeOf(p, key) == IF p.variant = "Filesystem" THEN pathResolve(key) ELSE key

\* nothing is stored at the place loc or below it
nothingAt(st, loc) ==
    \A i \in DOMAIN st : st[i].key # loc /\ ~startsWith(st[i].key, withSlash(loc))

\* C15: listFiles of a path that does not exist returns, without an error,
\* the page {files: [], nextContinuationToken: null, hasMore: false}, for
\* any limit and any continuation token.
C15_MissingPathIsEmpty ==
    Len(last) >= 1 /\ last[1].op = "list"
      /\ nothingAt(last[1].pre, placeOf(provider, last[1].key))
    => /\ last[1].ok
       /\ last[1].page = [files |-> << >>, nextContinuationToken |-> NULL, hasMore |-> FALSE]
       /\ store = last[1].pre

C15_Witness ==
    /\ Len(last) >= 1 /\ last[1].op = "list"
    /\ provider.variant = "Filesystem"
    /\ last[1].pre # << >>
    /\ last[1].key = provider.activePath \o <<"/", "n">>
    /\ last[1].token = <<"x">>
    /\ last[1].limit = MaxLimit
    /\ last[1].ok
    /\ last[1].page.files = << >>

\* C21: in every page listFiles returns, on every variant, each entry that
\* is a file has a key ending in '.json', no entry has the listed prefix
\* itself for its key, and all directory entries precede all file entries.
C21_PageShape ==
    Len(last) >= 1 /\ last[1].op = "list" /\ last[1].ok
    => /\ \A i \in DOMAIN last[1].page.files :
             /\ last[1].page.files[i].type # "directory"
                   => endsWith(last[1].page.files[i].key, sDotJson)
             /\ last[1].page.files[i].key
                   \notin {last[1].key, withSlash(last[1].key),
                            placeOf(provider, last[1].key),
                            withSlash(placeOf(provider, last[1].key))}
       /\ \A i, j \in DOMAIN last[1].page.files :
             /\ last[1].page.files[i].type = "directory"
             /\ last[1].page.files[j].type # "directory"
             => i < j

\* a bucket with a directory marker, a report and a sub-directory is listed
\* in one page: the sub-directory first, then the report, no marker
C21_Witness ==
    /\ Len(last) >= 1 /\ last[1].op = "list" /\ last[1].ok
    /\ provider.variant = "S3"
    /\ last[1].key = provider.activePath
    /\ exists(last[1].pre, withSlash(provider.activePath))
    /\ Len(last[1].page.files) = 2
    /\ last[1].page.files[1].type = "directory"
    /\ last[1].page.files[2].key = saveKey(provider, nameA)
    /\ ~last[1].page.hasMore

\* the objects of st other than the one at the place loc
othersThan(st, loc) == { st[i] : i \in { j \in DOMAIN st : st[j].key # loc } }

\* C19: a copyFile that succeeds leaves the source in place with its
\* content, gives the destination the same content and changes no other
\* key; a copyFile of a source that is absent fails and creates no
\* destination file.
C19_CopyFrame ==
    Len(last) >= 1 /\ last[1].op = "copy"
    => /\ last[1].ok =>
             /\ exists(last[1].pre, placeOf(provider, last[1].key))
             /\ exists(store, placeOf(provider, last[1].key))
             /\ bodyOf(store, placeOf(provider, last[1].key))
                   = bodyOf(last[1].pre, placeOf(provider, last[1].key))
             /\ exists(store, placeOf(provider, last[1].dest))
             /\ bodyOf(store, placeOf(provider, last[1].dest))
                   = bodyOf(last[1].pre, placeOf(provider, last[1].key))
             /\ othersThan(store, placeOf(provider, last[1].dest))
                   = othersThan(last[1].pre, placeOf(provider, last[1].dest))
       /\ ~exists(last[1].pre, placeOf(provider, last[1].key)) =>
             /\ ~last[1].ok
             /\ store = last[1].pre

C19_Witness ==
    /\ Len(last) >= 1 /\ last[1].op = "copy" /\ last[1].ok
    /\ Len(last[1].pre) = 2
    /\ last[1].key = saveKey(provider, nameA)
    /\ last[1].dest = archivedKeyFor(provider, nameA)
    /\ ~exists(last[1].pre, placeOf(provider, last[1].dest))
    /\ Len(store) = 3

\* the objects of st that are stored under activePath with the name filename
storedAs(p, st, filename) ==
    { i \in DOMAIN st :
        startsWith(st[i].key, withSlash(p.activePath)) /\ basename(st[i].key) = filename }

\* C20: saveFile(f, d1) and then saveFile(f, d2) both succeed and return
\* the same key; afterwards exactly one file is stored for f under
\* activePath, its content is d2, and no other key has changed.
C20_LastWriteWins ==
    Len(last) >= 2 /\ last[1].op = "save" /\ last[2].op = "save"
      /\ last[1].filename = last[2].filename
    => /\ last[1].ok /\ last[2].ok
       /\ last[1].saved = last[2].saved
       /\ Cardinality(storedAs(provider, store, last[1].filename)) = 1
       /\ \A i \in storedAs(provider, store, last[1].filename) :
             /\ store[i].key = last[1].saved
             /\ store[i].body = stringify(last[1].content, 2)
             /\ parse(store[i].body).v = last[1].content
       /\ othersThan(store, last[1].saved) = othersThan(last[2].pre, last[1].saved)

C20_Witness ==
    /\ Len(last) >= 2 /\ last[1].op = "save" /\ last[2].op = "save"
    /\ last[1].filename = nameA /\ last[2].filename = nameA
    /\ last[2].content = docTwo /\ last[1].content = docOne
    /\ Len(last[2].pre) = 2
    /\ last[1].ok /\ last[2].ok
    /\ documentAt(store, last[1].saved) = docOne

----------------------------------------------------------------------------
(* The provider factory: createStorageProvider with its check of the       *)
(* descriptor, and getProviderType, applied to descriptors made of a       *)
(* scheme-like head and a short tail.                                      *)

MaxTail == 2        \* characters of a descriptor after its head

noProvider ==
    [variant |-> "none", basePath |-> sEmpty, prefix |-> sEmpty,
     activePath |-> sEmpty, archivedPath |-> sEmpty]

\* createStorageProvider from its first line on: an empty or absent
\* storageLocation throws, and no provider is constructed
createOrThrow(storageLocation, storagePrefix) ==
    IF falsy(storageLocation)
    THEN [ok |-> FALSE, message |-> "STORAGE_LOCATION environment variable is required",
          provider |-> noProvider]
    ELSE [ok |-> TRUE, message |-> "",
          provider |-> createStorageProvider(storageLocation, storagePrefix)]

\* a classifier that does not know the 'gcs://' scheme
getProviderType_short(storageLocation) ==
    IF falsy(storageLocation) THEN "unknown"
    ELSE IF startsWith(storageLocation, sS3) THEN "S3"
    ELSE IF startsWith(storageLocation, sAzure) THEN "Azure Blob"
    ELSE IF startsWith(storageLocation, sGs) THEN "GCS"
    ELSE "Filesystem"

\* getProviderType(storageLocation)
getProviderType(storageLocation) ==
    IF falsy(storageLocation) THEN "unknown"
    ELSE IF startsWith(storageLocation, sS3) THEN "S3"
    ELSE IF startsWith(storageLocation, sAzure) THEN "Azure Blob"
    ELSE IF startsWith(storageLocation, sGs) \/ startsWith(storageLocation, sGcs) THEN "GCS"
    ELSE "Filesystem"

Heads ==
    { sS3, sAzure, sGs, sGcs, sEmpty, sSlash, <<"S", "3", ":", "/", "/">>,
      <<"s", "3", ":", "/">>, <<"s", "3">>, <<"g", "c", "s", ":", "/">>,
      <<"g", "s", ":">>, <<"a", "z", ":", "/", "/">>, <<"x">> \o sS3 }

TailChars == { "b", "/", ":" }

Descriptors ==
    { head \o tail :
        head \in Heads, tail \in UNION { [1..n -> TailChars] : n \in 0..MaxTail } }
      \cup { NULL }

InitFactory ==
    /\ probe \in { [noProbe EXCEPT !.input = d] : d \in Descriptors }
    /\ provider = noProvider
    /\ store = << >>
    /\ now = 0
    /\ chain = newChain
    /\ resp = noResp
    /\ last = << >>
    /\ reqs = << >>

\* startup: the provider is constructed and its type is logged
Construct ==
    /\ ~probe.applied
    /\ \E storagePrefix \in { sEmpty, <<"p">> } :
          probe' = [probe EXCEPT !.applied = TRUE,
                                 !.output = [type |-> getProviderType(probe.input),
                                             made |-> createOrThrow(probe.input, storagePrefix)]]
    /\ UNCHANGED <<provider, store, now, chain, resp, last, reqs>>

NextFactory == Construct

SpecFactory == InitFactory /\ [][NextFactory]_vars

\* d begins with the characters of scheme
hasScheme(d, scheme) ==
    Len(d) >= Len(scheme) /\ \A i \in DOMAIN scheme : d[i] = scheme[i]

\* the variant the scheme table gives a non-empty descriptor
variantFor(d) ==
    CASE hasScheme(d, sS3) -> "S3"
      [] hasScheme(d, sAzure) -> "Azure"
      [] hasScheme(d, sGs) \/ hasScheme(d, sGcs) -> "GCS"
      [] OTHER -> "Filesystem"

\* the type name that goes with a variant
typeNameOf(variant) ==
    CASE variant = "S3" -> "S3"
      [] variant = "Azure" -> "Azure Blob"
      [] variant = "GCS" -> "GCS"
      [] variant = "Filesystem" -> "Filesystem"
      [] OTHER -> "none"

\* C16: for a non-empty descriptor createStorageProvider constructs the
\* provider of the scheme table ('s3://' S3, 'azure://' Azure, 'gs://' and
\* 'gcs://' GCS, anything else the filesystem) and getProviderType returns
\* the name of exactly that variant; for an empty or absent descriptor
\* createStorageProvider throws and constructs no provider.
C16_FactoryAgrees ==
    probe.applied =>
        IF probe.input \in {NULL, sEmpty}
        THEN ~probe.output.made.ok /\ probe.output.made.provider = noProvider
        ELSE /\ probe.output.made.ok
             /\ probe.output.made.provider.variant = variantFor(probe.input)
             /\ probe.output.type = typeNameOf(probe.output.made.provider.variant)

C16_Witness ==
    /\ probe.applied
    /\ probe.input = sGcs \o <<"b">>
    /\ probe.output.type = "GCS"
    /\ probe.output.made.provider.variant = "GCS"
    /\ probe.output.made.provider.activePath = <<"p", "/">> \o sActive

----------------------------------------------------------------------------
(* One archive request on its own, for any key a client can post: a name,  *)
(* a listed key, keys with '..' segments and the key of a file in a        *)
(* directory whose name begins like activePath.  The store holds a report, *)
(* and next to it an archived copy and a file in that other directory.     *)

\* the directory beside activePath whose name begins with it
sBeside == <<"-", "o">>

besideKey(p, name) == p.activePath \o sBeside \o sSlash \o name

ArchiveStores(p) ==
    { <<[key |-> saveKey(p, nameA), body |-> stringify(docOne, 2), mtime |-> 0]>>,
      <<[key |-> saveKey(p, nameA), body |-> stringify(docOne, 2), mtime |-> 0],
        [key |-> archivedKeyFor(p, nameB), body |-> stringify(docTwo, 2), mtime |-> 0]>>,
      <<[key |-> saveKey(p, nameA), body |-> stringify(docOne, 2), mtime |-> 0],
        [key |-> besideKey(p, nameB), body |-> stringify(docTwo, 2), mtime |-> 0]>> }

\* the keys clients post
ClientKeys(p) ==
    { nameA, saveKey(p, nameA), nameGone,
      sDotDot \o sSlash \o sArchived \o sSlash \o nameB,
      p.activePath \o sSlash \o sDotDot \o sSlash \o sArchived \o sSlash \o nameB,
      besideKey(p, nameB) }

InitArchive ==
    /\ provider \in CallProviders
    /\ store \in ArchiveStores(provider)
    /\ reqs = << >>
    /\ now = 0
    /\ last = << >>
    /\ chain = newChain
    /\ resp = noResp
    /\ probe = noProbe

\* POST /api/files/archive with a key, up to the end of its copyFile
ArchiveAny ==
    /\ reqs = << >>
    /\ \E key \in ClientKeys(provider), up \in BOOLEAN, pos \in positions(provider, store) :
          ArchiveKeyed(archiveKey(provider, key), up, pos)

NextArchive == ArchiveAny \/ ArchiveDelete

SpecArchive == InitArchive /\ [][NextArchive]_vars

----------------------------------------------------------------------------
(* Properties of one archive request.                                      *)

\* the key names a place below activePath: activePath, a "/", and a rest
\* that does not lead out of it again
insideActive(p, key) ==
    /\ startsWith(key, withSlash(p.activePath))
    /\ startsWith(normalize(key), withSlash(p.activePath))

\* C22: the source key an archive request passes to copyFile and deleteFile
\* names a place inside activePath, whatever key the client posted, so the
\* request copies and deletes nothing outside the active root.
C22_SourceInsideActive ==
    \A i \in DOMAIN reqs :
        reqs[i].kind = "archive" /\ reqs[i].status # 400
        => /\ insideActive(provider, reqs[i].key)
           /\ reqs[i].deleted => insideActive(provider, resolvePath(provider, reqs[i].key))

----------------------------------------------------------------------------
(* A client pages through the active directory of the filesystem variant   *)
(* with GET /api/files: it sends one limit with every request and the      *)
(* token of the page before.  The directory does not change.               *)

MaxPages == 4       \* requests a client makes to page through a directory

LimitProviders ==
    { createStorageProvider(<<"/", "d">>, sEmpty), createStorageProvider(<<"/">>, <<"p">>) }

\* the directory: its first n files, newest first or oldest first
LimitStores(p) ==
    { [i \in 1..n |-> pagedObject(p, i, IF up THEN i ELSE n + 1 - i)] :
        n \in 0..MaxFiles, up \in BOOLEAN }

\* the limit parameter: absent, empty, no number, zero, negative, within
\* 1..100, 100, above 100, a number followed by other text
LimitParameters ==
    { NULL, sEmpty, <<"x">>, <<"-">>, <<"0">>, <<"-", "0">>, <<"-", "1">>, <<"-", "2">>,
      <<"1">>, <<"2">>, <<"1", "0", "0">>, <<"1", "0", "1">>, <<"5", "0", "0">>,
      <<"2", ".", "5">>, <<"-", "1", "x">> }

InitLimit ==
    /\ provider \in LimitProviders
    /\ store \in LimitStores(provider)
    /\ reqs = << >>
    /\ now = 1
    /\ chain = newChain
    /\ resp = noResp
    /\ last = << >>
    /\ probe = noProbe

\* the first GET /api/files of a client, with any limit
FirstPage ==
    /\ reqs = << >>
    /\ \E limit \in LimitParameters :
          reqs' = <<listHandler(provider, store, NULL, limit, NULL)>>
    /\ UNCHANGED <<provider, store, now, chain, resp, last, probe>>

\* a further GET /api/files: the limit of the first, the token of the last page
FollowingPage ==
    /\ reqs # << >>
    /\ Len(reqs) < MaxPages
    /\ reqs[Len(reqs)].page.hasMore
    /\ reqs' = Append(reqs, listHandler(provider, store, NULL, reqs[1].limit,
                                        reqs[Len(reqs)].page.nextContinuationToken))
    /\ UNCHANGED <<provider, store, now, chain, resp, last, probe>>

NextLimit == FirstPage \/ FollowingPage

SpecLimit == InitLimit /\ [][NextLimit]_vars

----------------------------------------------------------------------------
(* Properties of the limit.                                                *)

\* the offset a page's request started from, and the one its token names
offsetBefore(q) == IF falsy(orNull(q.token)) THEN 0 ELSE parseInt(q.token)
offsetAfter(q) == parseInt(q.page.nextContinuationToken)

\* C24: whatever the limit parameter is, the limit the list handler passes
\* to listFiles is an integer in 1..100; so every page of a filesystem
\* chain that has more moves the offset forward, and the chain comes to a
\* page with hasMore = false within as many requests as there are files.
C24_LimitInRange ==
    /\ \A i \in DOMAIN reqs :
          /\ reqs[i].passedLimit \in 1..LIST_LIMIT
          /\ reqs[i].page.hasMore => offsetAfter(reqs[i]) > offsetBefore(reqs[i])
    /\ Len(reqs) <= atLeastOne(Len(store))

====
